---- MODULE Spec2Model ----
(***************************************************************************)
(* A model of the element kernels of TACS: PoissonQuad<order>              *)
(* (src/src/elements/PoissonElement.h).                                    *)
(*                                                                         *)
(* TacsScalar / double values are modelled exactly, as elements of the     *)
(* field Q(sqrt r): a number is a triple <<p, q, d>> that stands for       *)
(* (p + q*sqrt(r))/d, with r = Rad(order) the radicand of the              *)
(* Gauss-Legendre points of that order.  Floating-point rounding is not    *)
(* modelled.  <<0, 0, 0>> stands for NaN.  C arrays are functions over     *)
(* 0..n-1.                                                                 *)
(*                                                                         *)
(* TLC evaluates the argument of an operator when it is first used.  A     *)
(* test Empty(x) at the head of a loop step evaluates the array x there,   *)
(* where the program has it in hand; no array of a reachable state is      *)
(* empty, so the test changes no result.                                   *)
(***************************************************************************)
EXTENDS Integers, Sequences, FiniteSets, TLC

(***************************************************************************)
(* Exact arithmetic for TacsScalar.                                        *)
(***************************************************************************)
Abs(a) == IF a < 0 THEN -a ELSE a

\* the array f itself, with every entry evaluated once
Tab(f) == f @@ <<>>
Empty(x) == DOMAIN x = {}

RECURSIVE GCD(_, _)
GCD(a, b) ==
  IF b = 0 THEN a
  ELSE IF a % b = 0 THEN b
  ELSE IF b % (a % b) = 0 THEN a % b
  ELSE GCD(b % (a % b), (a % b) % (b % (a % b)))

\* (p + q*sqrt r)/d in lowest terms with d > 0
Reduce(p, q, d, s) == <<p \div s, q \div s, d \div s>>
Norm3(p, q, d) ==
  IF d = 0 THEN <<0, 0, 0>>
  ELSE IF d < 0 THEN Reduce(-p, -q, -d, GCD(GCD(Abs(p), Abs(q)), -d))
  ELSE Reduce(p, q, d, GCD(GCD(Abs(p), Abs(q)), d))

Rat(n, d) == Norm3(n, 0, d)
Num(n) == <<n, 0, 1>>
Zero == <<0, 0, 1>>
One == <<1, 0, 1>>
NaN == <<0, 0, 0>>

\* x + y over the common denominator x[3]*y[3]/g, g = gcd(x[3], y[3])
AddOver(x, y, g) ==
  Norm3(x[1]*(y[3] \div g) + y[1]*(x[3] \div g),
        x[2]*(y[3] \div g) + y[2]*(x[3] \div g), x[3]*(y[3] \div g))
NAdd(x, y) == IF x[3] = 0 \/ y[3] = 0 THEN NaN ELSE AddOver(x, y, GCD(x[3], y[3]))
NNeg(x) == <<-x[1], -x[2], x[3]>>
NSub(x, y) == NAdd(x, NNeg(y))
NMul(r, x, y) ==
  Norm3(x[1]*y[1] + r*x[2]*y[2], x[1]*y[2] + x[2]*y[1], x[3]*y[3])
\* 1.0/x
NInv(r, x) == Norm3(x[1]*x[3], -(x[2]*x[3]), x[1]*x[1] - r*x[2]*x[2])
NDiv(r, x, y) == NMul(r, x, NInv(r, y))

\* the radicand of the Gauss-Legendre points of a given order
Rad(o) == IF o = 3 THEN 15 ELSE 3

\* acc + a[k] + ... + a[hi-1], added in this order; NaN + x is NaN
RECURSIVE SumFrom(_, _, _, _)
SumFrom(a, k, hi, acc) ==
  IF k >= hi \/ acc = NaN THEN acc ELSE SumFrom(a, k + 1, hi, NAdd(acc, a[k]))
\* sum of a[lo..hi-1]
NSum(a, lo, hi) == SumFrom(a, lo, hi, Zero)

(***************************************************************************)
(* FElibrary helpers used by the element.                                  *)
(***************************************************************************)
\* FElibrary::getGaussPtsWts(order, &pts, &wts): the Gauss-Legendre rule
getGaussPtsWts(o) ==
  IF o = 1 THEN [pts |-> Tab([n \in 0..0 |-> Zero]), wts |-> Tab([n \in 0..0 |-> Num(2)])]
  ELSE IF o = 2 THEN [pts |-> Tab([n \in 0..1 |-> IF n = 0 THEN <<0, -1, 3>> ELSE <<0, 1, 3>>]),
                 wts |-> Tab([n \in 0..1 |-> One])]
  ELSE [pts |-> Tab([n \in 0..2 |-> IF n = 0 THEN <<0, -1, 5>>
                                ELSE IF n = 1 THEN Zero ELSE <<0, 1, 5>>]),
        wts |-> Tab([n \in 0..2 |-> IF n = 1 THEN Rat(8, 9) ELSE Rat(5, 9)])]

\* product over j in lo..hi-1, j # i (and j # skip), of (a - knots[j])/(knots[i] - knots[j])
RECURSIVE LagrangeProd(_, _, _, _, _, _, _)
LagrangeProd(r, a, knots, i, skip, lo, hi) ==
  IF lo >= hi THEN One
  ELSE IF hi - 1 = i \/ hi - 1 = skip THEN LagrangeProd(r, a, knots, i, skip, lo, hi - 1)
  ELSE NMul(r, LagrangeProd(r, a, knots, i, skip, lo, hi - 1),
            NDiv(r, NSub(a, knots[hi - 1]), NSub(knots[i], knots[hi - 1])))

\* sum over j in lo..hi-1, j # i, of 1/(knots[i]-knots[j]) * prod_{k # i, j} (...)
RECURSIVE LagrangeDeriv(_, _, _, _, _, _, _)
LagrangeDeriv(r, a, knots, i, o, lo, hi) ==
  IF lo >= hi THEN Zero
  ELSE IF hi - 1 = i THEN LagrangeDeriv(r, a, knots, i, o, lo, hi - 1)
  ELSE NAdd(LagrangeDeriv(r, a, knots, i, o, lo, hi - 1),
            NMul(r, NInv(r, NSub(knots[i], knots[hi - 1])),
                 LagrangeProd(r, a, knots, i, hi - 1, 0, o)))

\* FElibrary::lagrangeSFKnots(sf, dsf, a, knots, order)
lagrangeSFKnots(a, knots, o) ==
  [sf  |-> Tab([i \in 0..(o - 1) |-> LagrangeProd(Rad(o), a, knots, i, -1, 0, o)]),
   dsf |-> Tab([i \in 0..(o - 1) |-> LagrangeDeriv(Rad(o), a, knots, i, o, 0, o)])]

\* FElibrary::jacobian2d(Xd, J): J = Xd^{-1}, returns det(Xd)
jacobian2dInverse(r, Xd, h, hinv) ==
  [h |-> h,
   J |-> Tab([k \in 0..3 |->
            IF k = 0 THEN NMul(r, Xd[3], hinv)
            ELSE IF k = 1 THEN NNeg(NMul(r, Xd[1], hinv))
            ELSE IF k = 2 THEN NNeg(NMul(r, Xd[2], hinv))
            ELSE NMul(r, Xd[0], hinv)])]
Det2(r, Xd) == NSub(NMul(r, Xd[0], Xd[3]), NMul(r, Xd[1], Xd[2]))
jacobian2d(r, Xd) == jacobian2dInverse(r, Xd, Det2(r, Xd), NInv(r, Det2(r, Xd)))

(***************************************************************************)
(* PoissonQuad<order>.  An element is a record self = [order, f, knots].   *)
(***************************************************************************)
\* cos(M_PI*k/n) for the cosine knot spacing; 0.0/0 is NaN
CosPi(k, n) ==
  IF n = 0 THEN NaN
  ELSE IF k = 0 THEN One
  ELSE IF k = n THEN Num(-1)
  ELSE IF 2*k = n THEN Zero
  ELSE IF 3*k = n THEN Rat(1, 2)
  ELSE IF 3*k = 2*n THEN Rat(-1, 2)
  ELSE NaN

\* PoissonQuad( const TacsScalar _f[] )
PoissonQuad(o, _f) ==
  [order |-> o,
   f     |-> Tab([i \in 0..(o*o - 1) |-> _f[i]]),
   knots |-> IF o = 2 THEN Tab([k \in 0..1 |-> IF k = 0 THEN Num(-1) ELSE One])
             ELSE IF o = 3 THEN Tab([k \in 0..2 |-> Num(k - 1)])
             ELSE Tab([k \in 0..(o - 1) |-> NNeg(CosPi(k, o - 1))])]

numDisplacements == 1
numStresses == 2
numExtras == 0
numNodes(o) == o*o
getNumGaussPts(o) == o*o

\* the product na[i]*nb[i]
ShapeNSameIndex(r, na, nb, i, j) == NMul(r, na[i], nb[i])
\* getShapeFunctions( pt, N, Na, Nb ): the tensor product na[i]*nb[j]
ShapeN(r, na, nb, i, j) == NMul(r, na[i], nb[j])
TensorProduct(o, a, b) ==
  [N  |-> Tab([p \in 0..(o*o - 1) |-> ShapeN(Rad(o), a.sf, b.sf, p % o, p \div o)]),
   Na |-> Tab([p \in 0..(o*o - 1) |-> ShapeN(Rad(o), a.dsf, b.sf, p % o, p \div o)]),
   Nb |-> Tab([p \in 0..(o*o - 1) |-> ShapeN(Rad(o), a.sf, b.dsf, p % o, p \div o)])]
getShapeFunctions(self, pt) ==
  TensorProduct(self.order, lagrangeSFKnots(pt[0], self.knots, self.order),
                lagrangeSFKnots(pt[1], self.knots, self.order))

\* acc += A[i]*X[stride*i + off] for i = k, ..., hi-1; NaN + x is NaN
RECURSIVE DotFrom(_, _, _, _, _, _, _, _)
DotFrom(r, A, X, stride, off, k, hi, acc) ==
  IF k >= hi \/ acc = NaN THEN acc
  ELSE DotFrom(r, A, X, stride, off, k + 1, hi,
               NAdd(acc, NMul(r, A[k], X[stride*k + off])))
\* sum over i in 0..hi-1 of A[i]*X[stride*i + off]
DotStride(r, A, X, stride, off, hi) == DotFrom(r, A, X, stride, off, 0, hi, Zero)

\* getJacobianTransform( Na, Nb, Xpts, Xd )
getJacobianTransform(o, Na, Nb, Xpts) ==
  Tab([k \in 0..3 |->
     IF k = 0 THEN DotStride(Rad(o), Na, Xpts, 3, 0, o*o)
     ELSE IF k = 1 THEN DotStride(Rad(o), Nb, Xpts, 3, 0, o*o)
     ELSE IF k = 2 THEN DotStride(Rad(o), Na, Xpts, 3, 1, o*o)
     ELSE DotStride(Rad(o), Nb, Xpts, 3, 1, o*o)])

\* getDetJacobian( pt, Xpts )
XdAt(o, sh, Xpts) == getJacobianTransform(o, sh.Na, sh.Nb, Xpts)
getDetJacobian(self, pt, Xpts) ==
  Det2(Rad(self.order), XdAt(self.order, getShapeFunctions(self, pt), Xpts))

\* the loop nest "for m ... for n ...": the (n, m) pairs in the order visited
RECURSIVE InnerLoop(_, _, _)
InnerLoop(hi, m, n) == IF n >= hi THEN <<>> ELSE <<<<n, m>>>> \o InnerLoop(hi, m, n + 1)
RECURSIVE OuterLoop(_, _)
OuterLoop(hi, m) == IF m >= hi THEN <<>> ELSE InnerLoop(hi, m, 0) \o OuterLoop(hi, m + 1)
GaussLoop(o) == OuterLoop(o, 0)

\* the derivatives taken with the transpose of J
PhysicalDerivativesTransposed(o, r, sh, jac) ==
  [N  |-> sh.N, Na |-> sh.Na, Nb |-> sh.Nb, h |-> jac.h, J |-> jac.J,
   Nx |-> Tab([i \in 0..(o*o - 1) |->
             NAdd(NMul(r, sh.Na[i], jac.J[0]), NMul(r, sh.Nb[i], jac.J[1]))]),
   Ny |-> Tab([i \in 0..(o*o - 1) |->
             NAdd(NMul(r, sh.Na[i], jac.J[2]), NMul(r, sh.Nb[i], jac.J[3]))])]
\* what every kernel computes at the quadrature point (pts[n], pts[m]):
\* shape functions, Jacobian transform, its inverse J and h = det(Xd),
\* and the physical derivatives Nx = Na*J[0] + Nb*J[2], Ny = Na*J[1] + Nb*J[3]
PhysicalDerivatives(o, r, sh, jac) ==
  [N  |-> sh.N, Na |-> sh.Na, Nb |-> sh.Nb, h |-> jac.h, J |-> jac.J,
   Nx |-> Tab([i \in 0..(o*o - 1) |->
             NAdd(NMul(r, sh.Na[i], jac.J[0]), NMul(r, sh.Nb[i], jac.J[2]))]),
   Ny |-> Tab([i \in 0..(o*o - 1) |->
             NAdd(NMul(r, sh.Na[i], jac.J[1]), NMul(r, sh.Nb[i], jac.J[3]))])]
PointDataOf(o, sh, Xpts) ==
  PhysicalDerivatives(o, Rad(o), sh, jacobian2d(Rad(o), XdAt(o, sh, Xpts)))
PointData(self, Xpts, pt) == PointDataOf(self.order, getShapeFunctions(self, pt), Xpts)
\* the point (pts[n], pts[m]) as the array pt[2]
GaussPt(o, n, m) ==
  Tab([k \in 0..1 |-> IF k = 0 THEN getGaussPtsWts(o).pts[n] ELSE getGaussPtsWts(o).pts[m]])
\* wts[n]*wts[m]
GaussWt(o, n, m) == NMul(Rad(o), getGaussPtsWts(o).wts[n], getGaussPtsWts(o).wts[m])

\* sum over i in 0..hi-1 of A[i]*B[i]
Dot(r, A, B, hi) == DotStride(r, A, B, 1, 0, hi)

\* "buf[i] = term"
AccumulateOverwrite(old, term) == term
\* "buf[i] += term"
Accumulate(old, term) == NAdd(old, term)

\* h*(Nxi*px + Nyi*py + fval*N[i])
ResidualTermPlusSource(r, h, Nxi, Nyi, px, py, fval, Ni) ==
  NMul(r, h, NAdd(NAdd(NMul(r, Nxi, px), NMul(r, Nyi, py)), NMul(r, fval, Ni)))
\* h*(Nxi*px + Nyi*py - fval*N[i])
ResidualTerm(r, h, Nxi, Nyi, px, py, fval, Ni) ==
  NMul(r, h, NSub(NAdd(NMul(r, Nxi, px), NMul(r, Nyi, py)), NMul(r, fval, Ni)))

\* the body of addResidual's loops at quadrature point (n, m)
addResidualTerms(o, r, res, pd, h, fval, px, py) ==
  Tab([i \in 0..(o*o - 1) |->
     Accumulate(res[i], ResidualTerm(r, h, pd.Nx[i], pd.Ny[i], px, py, fval, pd.N[i]))])
addResidualAt(o, r, f, res, vars, pd, w) ==
  IF Empty(pd.N) THEN res
  ELSE addResidualTerms(o, r, res, pd, NMul(r, pd.h, w), Dot(r, pd.N, f, o*o),
                        Dot(r, pd.Nx, vars, o*o), Dot(r, pd.Ny, vars, o*o))
addResidualPoint(self, res, Xpts, vars, n, m) ==
  addResidualAt(self.order, Rad(self.order), self.f, res, vars,
                PointData(self, Xpts, GaussPt(self.order, n, m)),
                GaussWt(self.order, n, m))

\* the passes k, k+1, ... of the loops, on the buffer as the earlier passes left it
RECURSIVE addResidualLoop(_, _, _, _, _, _)
addResidualLoop(self, res, Xpts, vars, visits, k) ==
  IF k > Len(visits) \/ Empty(res) THEN res
  ELSE addResidualLoop(self, addResidualPoint(self, res, Xpts, vars, visits[k][1],
                                              visits[k][2]),
                       Xpts, vars, visits, k + 1)

\* addResidual( time, res, Xpts, vars, dvars, ddvars ): the content of res afterwards
addResidual(self, time, res, Xpts, vars, dvars, ddvars) ==
  addResidualLoop(self, res, Xpts, vars, GaussLoop(self.order), 1)

\* h*(Nxi*Nxj + Nyi*Nxj)
JacobianTermMixed(r, h, Nxi, Nyi, Nxj, Nyj) ==
  NMul(r, h, NAdd(NMul(r, Nxi, Nxj), NMul(r, Nyi, Nxj)))
\* h*(Nxi*Nxj + Nyi*Nyj)
JacobianTerm(r, h, Nxi, Nyi, Nxj, Nyj) ==
  NMul(r, h, NAdd(NMul(r, Nxi, Nxj), NMul(r, Nyi, Nyj)))

\* h = det(Xd); h *= beta*wts[n]*wts[m], with the caller's beta = 1
JacobianWeightBeta(r, h, alpha, wn, wm) == NMul(r, h, NMul(r, wn, wm))
\* h = det(Xd); h *= alpha*wts[n]*wts[m]
JacobianWeight(r, h, alpha, wn, wm) == NMul(r, h, NMul(r, NMul(r, alpha, wn), wm))

addJacobianTerms(nn, r, mat, pd, h) ==
  Tab([e \in 0..(nn*nn - 1) |->
     Accumulate(mat[e], JacobianTerm(r, h, pd.Nx[e % nn], pd.Ny[e % nn],
                                     pd.Nx[e \div nn], pd.Ny[e \div nn]))])
addJacobianAt(o, r, mat, alpha, pd, wn, wm) ==
  IF Empty(pd.N) THEN mat
  ELSE addJacobianTerms(o*o, r, mat, pd, JacobianWeight(r, pd.h, alpha, wn, wm))

\* the body of addJacobian's loops at quadrature point (n, m)
addJacobianPoint(self, mat, alpha, Xpts, n, m) ==
  addJacobianAt(self.order, Rad(self.order), mat, alpha,
                PointData(self, Xpts, GaussPt(self.order, n, m)),
                getGaussPtsWts(self.order).wts[n], getGaussPtsWts(self.order).wts[m])

RECURSIVE addJacobianLoop(_, _, _, _, _, _)
addJacobianLoop(self, mat, alpha, Xpts, visits, k) ==
  IF k > Len(visits) \/ Empty(mat) THEN mat
  ELSE addJacobianLoop(self, addJacobianPoint(self, mat, alpha, Xpts, visits[k][1],
                                              visits[k][2]),
                       alpha, Xpts, visits, k + 1)

\* addJacobian( time, mat, alpha, beta, gamma, Xpts, vars, dvars, ddvars )
addJacobian(self, time, mat, alpha, beta, gamma, Xpts, vars, dvars, ddvars) ==
  addJacobianLoop(self, mat, alpha, Xpts, GaussLoop(self.order), 1)

\* the partition of unity shape functions of addLocalizedError
Nerr(r, pt) ==
  Tab([c \in 0..3 |->
     NMul(r, NMul(r, Rat(1, 4),
                  IF c % 2 = 0 THEN NSub(One, pt[0]) ELSE NAdd(One, pt[0])),
          IF c \div 2 = 0 THEN NSub(One, pt[1]) ELSE NAdd(One, pt[1]))])

\* the corner nodes with those of Nerr[1] and Nerr[2] exchanged
CornerNodeSwapped(o, c) ==
  IF c = 0 THEN 0
  ELSE IF c = 1 THEN o*(o - 1)
  ELSE IF c = 2 THEN o - 1
  ELSE o*o - 1
\* the corner node that receives Nerr[c]*product
CornerNode(o, c) ==
  IF c = 0 THEN 0
  ELSE IF c = 1 THEN o - 1
  ELSE IF c = 2 THEN o*(o - 1)
  ELSE o*o - 1

\* err[0] += Nerr[0]*product; err[order-1] += Nerr[1]*product; ... in this order
RECURSIVE addCorners(_, _, _, _, _)
addCorners(o, err, ne, product, c) ==
  IF c >= 4 \/ Empty(err) THEN err
  ELSE addCorners(o, [err EXCEPT ![CornerNode(o, c)] =
                        Accumulate(@, NMul(Rad(o), ne[c], product))],
                  ne, product, c + 1)

\* the body of addLocalizedError's loops at quadrature point (n, m)
\* product = h*(ax*px + ay*py - adj*fval)
ErrorProduct(r, h, fval, adj, px, py, ax, ay) ==
  NMul(r, h, NSub(NAdd(NMul(r, ax, px), NMul(r, ay, py)), NMul(r, adj, fval)))
addLocalizedErrorAt(o, r, f, err, adjoint, vars, pd, w, pt) ==
  IF Empty(pd.N) THEN err
  ELSE addCorners(o, err, Nerr(r, pt),
                  ErrorProduct(r, NMul(r, pd.h, w), Dot(r, pd.N, f, o*o),
                               Dot(r, pd.N, adjoint, o*o),
                               Dot(r, pd.Nx, vars, o*o), Dot(r, pd.Ny, vars, o*o),
                               Dot(r, pd.Nx, adjoint, o*o), Dot(r, pd.Ny, adjoint, o*o)),
                  0)
addLocalizedErrorPoint(self, err, adjoint, Xpts, vars, n, m) ==
  addLocalizedErrorAt(self.order, Rad(self.order), self.f, err, adjoint, vars,
                      PointData(self, Xpts, GaussPt(self.order, n, m)),
                      GaussWt(self.order, n, m), GaussPt(self.order, n, m))

RECURSIVE addLocalizedErrorLoop(_, _, _, _, _, _, _)
addLocalizedErrorLoop(self, err, adjoint, Xpts, vars, visits, k) ==
  IF k > Len(visits) \/ Empty(err) THEN err
  ELSE addLocalizedErrorLoop(self,
         addLocalizedErrorPoint(self, err, adjoint, Xpts, vars, visits[k][1],
                                visits[k][2]),
         adjoint, Xpts, vars, visits, k + 1)

\* addLocalizedError( time, err, adjoint, Xpts, vars )
addLocalizedError(self, time, err, adjoint, Xpts, vars) ==
  addLocalizedErrorLoop(self, err, adjoint, Xpts, vars, GaussLoop(self.order), 1)

\* addOutputCount( nelems, nnodes, ncsr )
addOutputCount(o, cnt) ==
  [nelems |-> cnt.nelems + (o - 1)*(o - 1),
   nnodes |-> cnt.nnodes + o*o,
   ncsr   |-> cnt.ncsr + 4*(o - 1)*(o - 1)]

\* the four entries with the row stride order-1 of the cells instead of order
ConQuadCellStride(o, node, n, m, k) ==
  IF k = 0 THEN node + n + m*(o - 1)
  ELSE IF k = 1 THEN node + n + 1 + m*(o - 1)
  ELSE IF k = 2 THEN node + n + 1 + (m + 1)*(o - 1)
  ELSE node + n + (m + 1)*(o - 1)
\* the four entries written for the cell (n, m), stored at con[4p..4p+3]
ConQuad(o, node, n, m, k) ==
  IF k = 0 THEN node + n + m*o
  ELSE IF k = 1 THEN node + n + 1 + m*o
  ELSE IF k = 2 THEN node + n + 1 + (m + 1)*o
  ELSE node + n + (m + 1)*o

\* con[4*p] = ...; con[4*p+1] = ...; con[4*p+2] = ...; con[4*p+3] = ...
WriteQuad(o, con, node, n, m, p) ==
  Tab([e \in DOMAIN con |->
     IF e \in (4*p)..(4*p + 3) THEN ConQuad(o, node, n, m, e - 4*p) ELSE con[e]])

\* getOutputConnectivity( con, node ): the cells p, p+1, ... in GaussLoop(order-1) order
RECURSIVE getOutputConnectivityLoop(_, _, _, _, _)
getOutputConnectivityLoop(o, con, node, visits, p) ==
  IF p >= Len(visits) \/ Empty(con) THEN con
  ELSE getOutputConnectivityLoop(o, WriteQuad(o, con, node, visits[p + 1][1],
                                              visits[p + 1][2], p),
                                 node, visits, p + 1)

getOutputConnectivity(o, con, node) ==
  getOutputConnectivityLoop(o, con, node, GaussLoop(o - 1), 0)

\* C integer division and remainder (truncation toward zero)
CDiv(a, b) == IF a >= 0 THEN a \div b ELSE -((-a) \div b)
CMod(a, b) == a - b*CDiv(a, b)

\* n = num / order
GaussIndexNDiv(o, num) == CDiv(num, o)
\* getGaussWtsPts( num, pt ) for an index whose reads stay inside pts and wts
GaussIndexN(o, num) == CMod(num, o)
GaussIndexM(o, num) == CDiv(num, o)
getGaussWtsPts(o, num) ==
  [pt  |-> GaussPt(o, GaussIndexN(o, num), GaussIndexM(o, num)),
   ret |-> GaussWt(o, GaussIndexN(o, num), GaussIndexM(o, num))]

\* the field-name queries; NULL is the null pointer
NULL == "NULL"
displacementName(i) == "phi"
stressName(i) == IF i = 0 THEN "px" ELSE IF i = 1 THEN "py" ELSE NULL
strainName(i) == IF i = 0 THEN "px" ELSE IF i = 1 THEN "py" ELSE NULL
extraName(i) == NULL

\* the output flags of TACSElement tested by getOutputData
OutputFlags == {"NODES", "DISPLACEMENTS", "STRAINS", "STRESSES"}

\* the values getOutputData writes for node p, in the order written
OutputRow(out_type, Xpts, vars, p, px, py) ==
  (IF "NODES" \in out_type THEN <<Xpts[3*p], Xpts[3*p + 1], Xpts[3*p + 2]>> ELSE <<>>)
  \o (IF "DISPLACEMENTS" \in out_type THEN <<vars[p]>> ELSE <<>>)
  \o (IF "STRAINS" \in out_type THEN <<px, py>> ELSE <<>>)
  \o (IF "STRESSES" \in out_type THEN <<px, py>> ELSE <<>>)

\* data[index] = ... for the row that starts at data + p*ld_data
WriteRow(data, ld_data, p, row) ==
  Tab([e \in DOMAIN data |->
     IF e >= p*ld_data /\ e < p*ld_data + Len(row) THEN row[e - p*ld_data + 1]
     ELSE data[e]])

\* the body of getOutputData's loops at node (n, m): the gradient at (knots[n], knots[m])
getOutputDataAt(o, out_type, data, ld_data, Xpts, vars, p, pd) ==
  IF Empty(pd.N) THEN data
  ELSE WriteRow(data, ld_data, p,
                OutputRow(out_type, Xpts, vars, p,
                          Dot(Rad(o), pd.Nx, vars, o*o), Dot(Rad(o), pd.Ny, vars, o*o)))
\* the quadrature point (pts[n], pts[m]) in place of the node's own location
KnotPtGauss(self, n, m) == GaussPt(self.order, n, m)
KnotPt(self, n, m) == Tab([k \in 0..1 |-> IF k = 0 THEN self.knots[n] ELSE self.knots[m]])
getOutputDataNode(self, out_type, data, ld_data, Xpts, vars, n, m) ==
  getOutputDataAt(self.order, out_type, data, ld_data, Xpts, vars, n + self.order*m,
                  PointData(self, Xpts, KnotPt(self, n, m)))

RECURSIVE getOutputDataLoop(_, _, _, _, _, _, _, _)
getOutputDataLoop(self, out_type, data, ld_data, Xpts, vars, visits, k) ==
  IF k > Len(visits) \/ Empty(data) THEN data
  ELSE getOutputDataLoop(self, out_type,
         getOutputDataNode(self, out_type, data, ld_data, Xpts, vars, visits[k][1],
                           visits[k][2]),
         ld_data, Xpts, vars, visits, k + 1)

\* getOutputData( out_type, data, ld_data, Xpts, vars )
getOutputData(self, out_type, data, ld_data, Xpts, vars) ==
  getOutputDataLoop(self, out_type, data, ld_data, Xpts, vars, GaussLoop(self.order), 1)

\* getShapeFunctions( pt, N ): the overload without derivatives
getShapeFunctionsN(self, pt) == getShapeFunctions(self, pt).N

\* a read of arr[i]: the entry, or whatever lies beside the array when i is outside it
ReadAt(arr, i, beside) == IF i \in DOMAIN arr THEN arr[i] ELSE beside

\* getGaussWtsPts( num, pt ) for any num: reads outside pts and wts yield `beside`
getGaussWtsPtsAny(o, num, beside) ==
  [pt  |-> Tab([k \in 0..1 |->
                 IF k = 0 THEN ReadAt(getGaussPtsWts(o).pts, GaussIndexN(o, num), beside)
                 ELSE ReadAt(getGaussPtsWts(o).pts, GaussIndexM(o, num), beside)]),
   ret |-> NMul(Rad(o), ReadAt(getGaussPtsWts(o).wts, GaussIndexN(o, num), beside),
                ReadAt(getGaussPtsWts(o).wts, GaussIndexM(o, num), beside))]

(***************************************************************************)
(* The arguments callers pass.                                             *)
(***************************************************************************)
MaxCalls == 2
ConPad == 2
MaxLd == 9

Orders == {2, 3}
CtorOrders == {1, 2, 3}

\* corners (x, y) of the quadrilateral whose bilinear image the nodes sample
UnitSquare == << <<0, 0>>, <<1, 0>>, <<0, 1>>, <<1, 1>> >>
Trapezoid == << <<0, 0>>, <<2, 0>>, <<0, 1>>, <<1, 1>> >>

Bilinear(r, c, d, s, t) ==
  NAdd(NAdd(NMul(r, NMul(r, NSub(One, s), NSub(One, t)), Num(c[1][d])),
            NMul(r, NMul(r, s, NSub(One, t)), Num(c[2][d]))),
       NAdd(NMul(r, NMul(r, NSub(One, s), t), Num(c[3][d])),
            NMul(r, NMul(r, s, t), Num(c[4][d]))))

\* Xpts of the o*o nodes: node p = i + o*j at (i/(o-1), j/(o-1)) of the quadrilateral
GridParam(i, o) == IF o = 1 THEN Zero ELSE Rat(i, o - 1)
NodeGrid(o, c, z) ==
  Tab([k \in 0..(3*o*o - 1) |->
     IF k % 3 = 2 THEN Num(z)
     ELSE Bilinear(Rad(o), c, (k % 3) + 1, GridParam((k \div 3) % o, o),
                   GridParam((k \div 3) \div o, o))])

Geoms(o) == {NodeGrid(o, UnitSquare, 0), NodeGrid(o, Trapezoid, 1)}
ZeroVec(n) == Tab([i \in 0..(n - 1) |-> Zero])
Fill(n, v) == Tab([i \in 0..(n - 1) |-> v])
VarSets(o) == {ZeroVec(o*o), Tab([i \in 0..(o*o - 1) |-> Num(i)])}
AdjSets(o) == {Tab([i \in 0..(o*o - 1) |-> Num(1 - i)])}
SourceSets(o) == {Fill(o*o, One), Tab([i \in 0..(o*o - 1) |-> Num(i % 2)])}
Alphas == {Zero, Num(2)}
\* the arguments the Poisson kernels receive and do not read
Unused(o) ==
  {[time |-> 1, beta |-> One, gamma |-> Num(2),
    dvars |-> Fill(o*o, One), ddvars |-> Tab([i \in 0..(o*o - 1) |-> Num(i)])]}
\* parametric points: a corner, an interior point, a quadrature point
ParamPts(o) ==
  {Tab([k \in 0..1 |-> Num(-1)]),
   Tab([k \in 0..1 |-> IF k = 0 THEN Rat(1, 2) ELSE Rat(-1, 3)]),
   GaussPt(o, 0, o - 1)}
OutTypes == {OutputFlags, {"DISPLACEMENTS", "STRESSES"}}
FirstNodes == {0, 9}
NameIndices == -1..2
\* what a read beside the Gauss tables may find
Beside == {Zero, Num(7)}
Unwritten == Num(-999)

(***************************************************************************)
(* The state: one element (order = 0: none), the caller's buffers and      *)
(* arrays, the caller's other values (rest: the array _f given to the      *)
(* constructor and the arguments the kernels do not read), and the last    *)
(* two calls.                                                              *)
(***************************************************************************)
VARIABLES order, f, knots, rest, res, mat, err, cnt, con, data,
          Xpts, vars, adjoint, last, prev, ncalls
\* The beam objects (src/src/elements/shell/TACSBeamElement.h, src/unnamed/part_000):
\* the constitutive and transform objects on the heap, the beam elements with the
\* pointers they hold, what each element was constructed with, and the last call.
VARIABLES cons, transforms, beams, made, bcall, nbcalls
\* Several kernel calls that accumulate into buffers of the caller: what is to be
\* done (job), the caller's buffer, the buffer each call is given, and how far
\* each call has come.
VARIABLES job, shared, mine, at
avars_ == <<job, shared, mine, at>>
bvars_ == <<cons, transforms, beams, made, bcall, nbcalls, avars_>>
vars_ == <<order, f, knots, rest, res, mat, err, cnt, con, data,
           Xpts, vars, adjoint, last, prev, ncalls, bvars_>>

self == [order |-> order, f |-> f, knots |-> knots]
NoCall == [op |-> "none", outcome |-> "returned"]
\* no beam object exists
BeamIdle ==
  /\ cons = <<>> /\ transforms = <<>> /\ beams = <<>> /\ made = <<>>
  /\ bcall = NoCall /\ nbcalls = 0
\* no kernel call is under way
AsmIdle == job = <<>> /\ shared = <<>> /\ mine = <<>> /\ at = <<>>
Alive == order > 0 /\ last.outcome = "returned" /\ ncalls < MaxCalls

\* the caller's buffers and arrays for an element of order o
Allocate(o) ==
  [res |-> ZeroVec(o*o), mat |-> ZeroVec(o*o*o*o), err |-> ZeroVec(o*o),
   cnt |-> [nelems |-> 0, nnodes |-> 0, ncsr |-> 0],
   con |-> Fill(4*(o - 1)*(o - 1) + ConPad, -1),
   data |-> Fill(o*o*MaxLd, Unwritten),
   Xpts |-> ZeroVec(3*o*o), vars |-> ZeroVec(o*o), adjoint |-> ZeroVec(o*o)]

Buffers_ == <<res, mat, err, cnt, con, data, Xpts, vars, adjoint>>
Allocated(b) ==
  /\ res = b.res /\ mat = b.mat /\ err = b.err /\ cnt = b.cnt /\ con = b.con
  /\ data = b.data /\ Xpts = b.Xpts /\ vars = b.vars /\ adjoint = b.adjoint

InitElement(o, _f, u) ==
  /\ order = o
  /\ f = PoissonQuad(o, _f).f
  /\ knots = PoissonQuad(o, _f).knots
  /\ rest = u @@ [_f |-> _f]
  /\ Allocated(Allocate(o))
  /\ last = NoCall
  /\ prev = NoCall
  /\ ncalls = 0
  /\ BeamIdle
  /\ AsmIdle

Init == \E o \in Orders : \E _f \in SourceSets(o), u \in Unused(o) : InitElement(o, _f, u)

\* a call that rescales the stored source coefficients in place
CalledRescaling(call) ==
  /\ last' = call
  /\ prev' = last
  /\ ncalls' = ncalls + 1
  /\ f' = Tab([i \in DOMAIN f |-> NAdd(f[i], f[i])])
  /\ UNCHANGED <<order, knots, rest, bvars_>>

\* what every call leaves alone besides its own output: no method assigns a member
Called(call) ==
  /\ last' = call
  /\ prev' = last
  /\ ncalls' = ncalls + 1
  /\ UNCHANGED <<order, f, knots, rest, bvars_>>

\* a query that writes no buffer: its result is the last thing a behaviour records
Answered(call) ==
  /\ last' = call
  /\ prev' = last
  /\ ncalls' = MaxCalls
  /\ UNCHANGED <<order, f, knots, rest, bvars_>>

AddResidual ==
  /\ Alive
  /\ \E X \in Geoms(order), v \in VarSets(order) :
       /\ res' = addResidual(self, rest.time, res, X, v, rest.dvars, rest.ddvars)
       /\ Xpts' = X
       /\ vars' = v
       /\ Called([op |-> "addResidual", outcome |-> "returned", before |-> res,
                  Xpts |-> X, vars |-> v])
  /\ UNCHANGED <<mat, err, cnt, con, data, adjoint>>

AddJacobian ==
  /\ Alive
  /\ \E X \in Geoms(order), alpha \in Alphas :
     \E v \in VarSets(order) \ {ZeroVec(order*order)} :
       /\ mat' = addJacobian(self, rest.time, mat, alpha, rest.beta, rest.gamma, X, v,
                             rest.dvars, rest.ddvars)
       /\ Xpts' = X
       /\ vars' = v
       /\ Called([op |-> "addJacobian", outcome |-> "returned", before |-> mat,
                  Xpts |-> X, vars |-> v, alpha |-> alpha])
  /\ UNCHANGED <<res, err, cnt, con, data, adjoint>>

AddLocalizedError ==
  /\ Alive
  /\ \E X \in Geoms(order), v \in VarSets(order), a \in AdjSets(order) :
       /\ err' = addLocalizedError(self, rest.time, err, a, X, v)
       /\ Xpts' = X
       /\ vars' = v
       /\ adjoint' = a
       /\ Called([op |-> "addLocalizedError", outcome |-> "returned", before |-> err,
                  Xpts |-> X, vars |-> v, adjoint |-> a])
  /\ UNCHANGED <<res, mat, cnt, con, data>>

GetOutputData ==
  /\ Alive
  /\ \E X \in Geoms(order), out_type \in OutTypes :
     \E v \in VarSets(order) \ {ZeroVec(order*order)} :
       /\ data' = getOutputData(self, out_type, data, MaxLd, X, v)
       /\ Xpts' = X
       /\ vars' = v
       /\ Called([op |-> "getOutputData", outcome |-> "returned", before |-> data,
                  Xpts |-> X, vars |-> v, out_type |-> out_type, ld_data |-> MaxLd])
  /\ UNCHANGED <<res, mat, err, cnt, con, adjoint>>

AddOutputCount ==
  /\ Alive
  /\ cnt' = addOutputCount(order, cnt)
  /\ Called([op |-> "addOutputCount", outcome |-> "returned", before |-> cnt])
  /\ UNCHANGED <<res, mat, err, con, data, Xpts, vars, adjoint>>

GetOutputConnectivity ==
  /\ Alive
  /\ \E node \in FirstNodes :
       /\ con' = getOutputConnectivity(order, con, node)
       /\ Called([op |-> "getOutputConnectivity", outcome |-> "returned", before |-> con,
                  node |-> node])
  /\ UNCHANGED <<res, mat, err, cnt, data, Xpts, vars, adjoint>>

GetNumGaussPts ==
  /\ Alive
  /\ Answered([op |-> "getNumGaussPts", outcome |-> "returned", ret |-> getNumGaussPts(order)])
  /\ UNCHANGED Buffers_

\* an index in [0, order*order) reads inside the tables; any other index reads
\* outside them (undefined behaviour): the call returns what lies there, or traps
GetGaussWtsPts ==
  /\ Alive
  /\ order \in Orders
  /\ \E num \in (-1)..(order*order) :
       IF num \in 0..(order*order - 1)
       THEN Answered([op |-> "getGaussWtsPts", outcome |-> "returned", num |-> num,
                    pt |-> getGaussWtsPts(order, num).pt,
                    ret |-> getGaussWtsPts(order, num).ret])
       ELSE \/ \E b \in Beside :
                 Answered([op |-> "getGaussWtsPts", outcome |-> "returned", num |-> num,
                         pt |-> getGaussWtsPtsAny(order, num, b).pt,
                         ret |-> getGaussWtsPtsAny(order, num, b).ret])
            \/ Answered([op |-> "getGaussWtsPts", outcome |-> "trapped", num |-> num])
  /\ UNCHANGED Buffers_

GetShapeFunctions ==
  /\ Alive
  /\ order \in Orders
  /\ \E pt \in ParamPts(order) :
       Answered([op |-> "getShapeFunctions", outcome |-> "returned", pt |-> pt,
               N |-> getShapeFunctions(self, pt).N,
               Na |-> getShapeFunctions(self, pt).Na,
               Nb |-> getShapeFunctions(self, pt).Nb])
  /\ UNCHANGED Buffers_

GetShapeFunctionsN ==
  /\ Alive
  /\ order \in Orders
  /\ \E pt \in ParamPts(order) :
       Answered([op |-> "getShapeFunctionsN", outcome |-> "returned", pt |-> pt,
               N |-> getShapeFunctionsN(self, pt)])
  /\ UNCHANGED Buffers_

GetDetJacobian ==
  /\ Alive
  /\ order \in Orders
  /\ \E pt \in ParamPts(order), X \in Geoms(order) :
       /\ Xpts' = X
       /\ Answered([op |-> "getDetJacobian", outcome |-> "returned", pt |-> pt, Xpts |-> X,
                  ret |-> getDetJacobian(self, pt, X)])
  /\ UNCHANGED <<res, mat, err, cnt, con, data, vars, adjoint>>

DisplacementName ==
  /\ Alive
  /\ \E i \in NameIndices :
       Answered([op |-> "displacementName", outcome |-> "returned", i |-> i,
               ret |-> displacementName(i)])
  /\ UNCHANGED Buffers_

StressName ==
  /\ Alive
  /\ \E i \in NameIndices :
       Answered([op |-> "stressName", outcome |-> "returned", i |-> i, ret |-> stressName(i)])
  /\ UNCHANGED Buffers_

StrainName ==
  /\ Alive
  /\ \E i \in NameIndices :
       Answered([op |-> "strainName", outcome |-> "returned", i |-> i, ret |-> strainName(i)])
  /\ UNCHANGED Buffers_

ExtraName ==
  /\ Alive
  /\ \E i \in NameIndices :
       Answered([op |-> "extraName", outcome |-> "returned", i |-> i, ret |-> extraName(i)])
  /\ UNCHANGED Buffers_

Kernels == AddResidual \/ AddJacobian \/ AddLocalizedError
Outputs == GetOutputData \/ AddOutputCount \/ GetOutputConnectivity
Names == DisplacementName \/ StressName \/ StrainName \/ ExtraName
Queries ==
  GetNumGaussPts \/ GetGaussWtsPts \/ GetShapeFunctions \/ GetShapeFunctionsN \/ GetDetJacobian

Next == Kernels \/ Outputs \/ Queries \/ Names

Spec == Init /\ [][Next]_vars_

(***************************************************************************)
(* Construction: the caller instantiates PoissonQuad<order> and then calls *)
(* the element.                                                            *)
(***************************************************************************)
QuadIdle ==
  /\ order = 0
  /\ f = <<>>
  /\ knots = <<>>
  /\ rest = <<>>
  /\ Allocated(Allocate(0))
  /\ last = NoCall
  /\ prev = NoCall
  /\ ncalls = 0
NoElement == QuadIdle /\ BeamIdle /\ AsmIdle

\* PoissonQuad( const TacsScalar _f[] ): the constructor tests nothing and returns
Construct ==
  /\ order = 0
  /\ \E o \in CtorOrders : \E _f \in SourceSets(o), u \in Unused(o) :
       /\ order' = o
       /\ f' = PoissonQuad(o, _f).f
       /\ knots' = PoissonQuad(o, _f).knots
       /\ rest' = u @@ [_f |-> _f]
       /\ res' = Allocate(o).res /\ mat' = Allocate(o).mat /\ err' = Allocate(o).err
       /\ cnt' = Allocate(o).cnt /\ con' = Allocate(o).con /\ data' = Allocate(o).data
       /\ Xpts' = Allocate(o).Xpts /\ vars' = Allocate(o).vars
       /\ adjoint' = Allocate(o).adjoint
       /\ last' = [op |-> "PoissonQuad", outcome |-> "returned", order |-> o]
  /\ prev' = last
  /\ ncalls' = 0
  /\ UNCHANGED bvars_

CtorNext ==
  \/ Construct
  \/ AddResidual
  \/ AddLocalizedError
  \/ AddOutputCount
  \/ GetOutputConnectivity
  \/ GetNumGaussPts
  \/ Names

CtorSpec == NoElement /\ [][CtorNext]_vars_

(***************************************************************************)
(* Vectors and the increments of the kernels, for stating the properties.  *)
(***************************************************************************)
VecAdd(a, b) == Tab([i \in DOMAIN a |-> NAdd(a[i], b[i])])
VecSub(a, b) == Tab([i \in DOMAIN a |-> NSub(a[i], b[i])])
VecScale(r, c, a) == Tab([i \in DOMAIN a |-> NMul(r, c, a[i])])
\* sum over j in 0..hi-1 of K[i + j*nn]*v[j]
MatVec(r, K, v, nn) == Tab([i \in 0..(nn - 1) |-> DotStride(r, v, K, nn, i, nn)])

\* the increments D that the kernels add, computed into a zero buffer
ResidualOf(el, X, v) ==
  addResidual(el, 0, ZeroVec(el.order*el.order), X, v,
              ZeroVec(el.order*el.order), ZeroVec(el.order*el.order))
JacobianOf(el, alpha, X) ==
  addJacobian(el, 0, ZeroVec(el.order*el.order*el.order*el.order), alpha, Zero, Zero, X,
              ZeroVec(el.order*el.order), ZeroVec(el.order*el.order),
              ZeroVec(el.order*el.order))
LocalizedErrorOf(el, a, X, v) ==
  addLocalizedError(el, 0, ZeroVec(el.order*el.order), a, X, v)

KernelOps == {"addResidual", "addJacobian", "addLocalizedError"}

(***************************************************************************)
(* C1: addResidual, addJacobian and addLocalizedError leave b0 + D in      *)
(* their output buffer, where b0 is the content before the call and D is   *)
(* what the same call adds to a zero buffer (so D does not depend on b0);  *)
(* two addResidual calls with the same inputs into a zero buffer leave     *)
(* exactly twice what one call leaves.                                     *)
(***************************************************************************)
C1_Additive ==
  /\ last.op = "addResidual" =>
       /\ res = VecAdd(last.before, ResidualOf(self, last.Xpts, last.vars))
       /\ (/\ prev.op = "addResidual"
           /\ prev.before = ZeroVec(order*order)
           /\ prev.Xpts = last.Xpts
           /\ prev.vars = last.vars) => res = VecAdd(last.before, last.before)
  /\ last.op = "addJacobian" =>
       mat = VecAdd(last.before, JacobianOf(self, last.alpha, last.Xpts))
  /\ last.op = "addLocalizedError" =>
       err = VecAdd(last.before,
                    LocalizedErrorOf(self, last.adjoint, last.Xpts, last.vars))

\* a second addResidual call with the inputs of the first, into a buffer that
\* started at zero, and a result that is not zero
C1_Witness ==
  /\ last.op = "addResidual"
  /\ prev.op = "addResidual"
  /\ prev.before = ZeroVec(order*order)
  /\ prev.Xpts = last.Xpts
  /\ prev.vars = last.vars
  /\ last.before # ZeroVec(order*order)
  /\ res # last.before

(***************************************************************************)
(* C2: after any calls the element's members f and knots are what the      *)
(* constructor stored, and the arrays Xpts, vars and adjoint are what the  *)
(* caller passed; and whatever was called before, a call leaves in its     *)
(* output buffer what the same call with the same inputs and the same      *)
(* buffer content leaves on a freshly constructed element, i.e. it adds    *)
(* the same increment.                                                     *)
(***************************************************************************)
XptsOps == KernelOps \cup {"getOutputData", "getDetJacobian"}
VarsOps == KernelOps \cup {"getOutputData"}
InputsIntact ==
  /\ last.op \in XptsOps => Xpts = last.Xpts
  /\ last.op \in VarsOps => vars = last.vars
  /\ last.op = "addLocalizedError" => adjoint = last.adjoint
\* the outcome of the last call, had it been made on the element `fresh`
AsOnElement(fresh) ==
  /\ last.op = "addResidual" =>
       VecSub(res, last.before) = ResidualOf(fresh, last.Xpts, last.vars)
  /\ last.op = "addJacobian" =>
       VecSub(mat, last.before) = JacobianOf(fresh, last.alpha, last.Xpts)
  /\ last.op = "addLocalizedError" =>
       VecSub(err, last.before) =
         LocalizedErrorOf(fresh, last.adjoint, last.Xpts, last.vars)
  /\ last.op = "getOutputData" =>
       data = getOutputData(fresh, last.out_type, last.before, last.ld_data,
                            last.Xpts, last.vars)
  /\ last.op = "getOutputConnectivity" =>
       con = getOutputConnectivity(fresh.order, last.before, last.node)
  /\ last.op = "addOutputCount" => cnt = addOutputCount(fresh.order, last.before)
  /\ (last.op = "getGaussWtsPts" /\ last.num \in 0..(order*order - 1)) =>
       /\ last.pt = getGaussWtsPts(fresh.order, last.num).pt
       /\ last.ret = getGaussWtsPts(fresh.order, last.num).ret
  /\ last.op = "getDetJacobian" => last.ret = getDetJacobian(fresh, last.pt, last.Xpts)
  /\ last.op = "getShapeFunctions" =>
       /\ last.N = getShapeFunctions(fresh, last.pt).N
       /\ last.Na = getShapeFunctions(fresh, last.pt).Na
       /\ last.Nb = getShapeFunctions(fresh, last.pt).Nb
C2_Stateless ==
  /\ self = PoissonQuad(order, rest._f)
  /\ InputsIntact
  /\ AsOnElement(PoissonQuad(order, rest._f))

\* addResidual with a non-zero result, called after addJacobian changed mat
C2_Witness ==
  /\ last.op = "addResidual"
  /\ prev.op = "addJacobian"
  /\ prev.alpha # Zero
  /\ res # last.before
  /\ mat # ZeroVec(order*order*order*order)
  /\ Xpts = last.Xpts

(***************************************************************************)
(* C3: mat starts symmetric (zero) and stays symmetric after any number of *)
(* addJacobian calls: mat[i + j*order*order] = mat[j + i*order*order] for  *)
(* all nodes i, j.                                                         *)
(***************************************************************************)
Symmetric(m, nn) ==
  \A i \in 0..(nn - 1) : \A j \in (i + 1)..(nn - 1) : m[i + j*nn] = m[j + i*nn]
C3_Symmetric == Symmetric(mat, order*order)

\* two addJacobian calls with alpha # 0 on different geometries; mat is not zero
C3_Witness ==
  /\ last.op = "addJacobian"
  /\ prev.op = "addJacobian"
  /\ last.alpha # Zero
  /\ prev.alpha # Zero
  /\ prev.Xpts # last.Xpts
  /\ mat[1] # Zero
  /\ mat[1] = mat[order*order]

(***************************************************************************)
(* C4: the increment K that addJacobian adds to mat satisfies              *)
(* R(v) - R(0) = (1/alpha) K v for alpha # 0 and every state vector v, R   *)
(* being the increment of addResidual on the same Xpts; K is the increment *)
(* computed with vars, dvars, ddvars, time, beta and gamma all zero; and   *)
(* for alpha = 0 the call leaves mat as it was.                            *)
(***************************************************************************)
TangentOf(r, K, alpha, v, nn) == VecScale(r, NInv(r, alpha), MatVec(r, K, v, nn))
Consistent(K, alpha, X) ==
  \A v \in VarSets(order) :
    VecSub(ResidualOf(self, X, v), ResidualOf(self, X, ZeroVec(order*order)))
      = TangentOf(Rad(order), K, alpha, v, order*order)
C4_Tangent ==
  last.op = "addJacobian" =>
    /\ VecSub(mat, last.before) = JacobianOf(self, last.alpha, last.Xpts)
    /\ last.alpha # Zero => Consistent(VecSub(mat, last.before), last.alpha, last.Xpts)
    /\ last.alpha = Zero => mat = last.before

\* addJacobian with alpha = 2 on the trapezoid, into a buffer that was not zero
C4_Witness ==
  /\ last.op = "addJacobian"
  /\ last.alpha = Num(2)
  /\ last.vars # ZeroVec(order*order)
  /\ last.Xpts = NodeGrid(order, Trapezoid, 1)
  /\ last.before # ZeroVec(order*order*order*order)
  /\ mat # last.before

(***************************************************************************)
(* C5: getOutputConnectivity(con, node) writes the entries                 *)
(* con[0 .. 4*(order-1)^2 - 1] and no other: (order-1)^2 quadrilaterals,   *)
(* the numbers addOutputCount adds to ncsr and nelems; the quad of cell    *)
(* (n, m) is at con[4p..4p+3], p = n + m*(order-1), and is (node + n +     *)
(* m*order, node + n+1 + m*order, node + n+1 + (m+1)*order, node + n +     *)
(* (m+1)*order); every index lies in [node, node + order*order), the four  *)
(* indices of a quad are distinct, and distinct cells give distinct quads. *)
(***************************************************************************)
Cells(o) == (0..(o - 2)) \X (0..(o - 2))
QuadAt(c, p) == <<c[4*p], c[4*p + 1], c[4*p + 2], c[4*p + 3]>>
QuadOfCell(o, node, n, m) ==
  <<node + n + m*o, node + n + 1 + m*o, node + n + 1 + (m + 1)*o, node + n + (m + 1)*o>>
C5_Connectivity ==
  /\ last.op = "getOutputConnectivity" =>
       /\ \A c \in Cells(order) :
            QuadAt(con, c[1] + c[2]*(order - 1)) = QuadOfCell(order, last.node, c[1], c[2])
       /\ \A e \in DOMAIN con :
            e >= 4*(order - 1)*(order - 1) => con[e] = last.before[e]
       /\ \A e \in 0..(4*(order - 1)*(order - 1) - 1) :
            con[e] \in last.node..(last.node + order*order - 1)
       /\ \A p \in 0..((order - 1)*(order - 1) - 1) :
            Cardinality({QuadAt(con, p)[k] : k \in 1..4}) = 4
       /\ Cardinality({QuadAt(con, p) : p \in 0..((order - 1)*(order - 1) - 1)})
            = (order - 1)*(order - 1)
  /\ last.op = "addOutputCount" =>
       /\ cnt.nelems = last.before.nelems + (order - 1)*(order - 1)
       /\ cnt.ncsr = last.before.ncsr + 4*(order - 1)*(order - 1)
       /\ cnt.nnodes = last.before.nnodes + order*order

\* the order-3 element numbered from node 9: the last of its 4 quads is (13, 14, 17, 16)
C5_Witness ==
  /\ last.op = "getOutputConnectivity"
  /\ order = 3
  /\ last.node = 9
  /\ QuadAt(con, 3) = <<13, 14, 17, 16>>
  /\ con[16] = -1
  /\ last.before[15] = -1

(***************************************************************************)
(* C6: getNumGaussPts() returns order*order; for num in [0, order*order)   *)
(* getGaussWtsPts(num, pt) sets pt = (pts[num % order], pts[num / order])  *)
(* and returns wts[num % order]*wts[num / order], the same point and       *)
(* weight at every call; the indices enumerate each pair (n, m) once, num  *)
(* being the position of (n, m) in the order the kernels' loops visit the  *)
(* quadrature points.                                                      *)
(***************************************************************************)
C6_GaussIndex ==
  /\ last.op = "getNumGaussPts" => last.ret = order*order
  /\ (last.op = "getGaussWtsPts" /\ last.num \in 0..(order*order - 1)) =>
       /\ last.outcome = "returned"
       /\ last.pt[0] = getGaussPtsWts(order).pts[last.num % order]
       /\ last.pt[1] = getGaussPtsWts(order).pts[last.num \div order]
       /\ last.ret = NMul(Rad(order), getGaussPtsWts(order).wts[last.num % order],
                          getGaussPtsWts(order).wts[last.num \div order])
       /\ GaussLoop(order)[last.num + 1] = <<last.num % order, last.num \div order>>
       /\ Len(GaussLoop(order)) = order*order
       /\ {GaussLoop(order)[k] : k \in 1..(order*order)}
            = (0..(order - 1)) \X (0..(order - 1))

\* index 5 of the order-3 rule: the point (sqrt(15)/5, 0) with weight 5/9 * 8/9
C6_Witness ==
  /\ last.op = "getGaussWtsPts"
  /\ order = 3
  /\ last.num = 5
  /\ last.pt[0] = <<0, 1, 5>>
  /\ last.pt[1] = Zero
  /\ last.ret = Rat(40, 81)

(***************************************************************************)
(* C7: getGaussWtsPts with num < 0 or num >= order*order is detected: the  *)
(* call does not return a point and weight.                                *)
(***************************************************************************)
C7_OutOfRangeIsFatal ==
  (last.op = "getGaussWtsPts" /\ last.num \notin 0..(order*order - 1)) =>
    last.outcome # "returned"

(***************************************************************************)
(* C8: the name queries return NULL exactly for the indices out of range:  *)
(* stressName(i) and strainName(i) for i outside {0, 1}, extraName(i) for  *)
(* every i, displacementName(i) for i outside {0}; an index in range gets  *)
(* a name that is not NULL.                                                *)
(***************************************************************************)
C8_NamesNullOutOfRange ==
  /\ last.op \in {"stressName", "strainName"} =>
       (last.ret = NULL <=> last.i \notin 0..(numStresses - 1))
  /\ last.op = "extraName" => (last.ret = NULL <=> last.i \notin 0..(numExtras - 1))
  /\ last.op = "displacementName" =>
       (last.ret = NULL <=> last.i \notin 0..(numDisplacements - 1))

(***************************************************************************)
(* C9: an element of order < 2 is refused by the constructor: no element   *)
(* of such an order exists, and none receives a kernel call.               *)
(***************************************************************************)
C9_InvalidOrderRefused ==
  /\ (last.op = "PoissonQuad" /\ last.order < 2) => last.outcome # "returned"
  /\ order > 0 => order >= 2
  /\ last.op \in KernelOps => order >= 2

(***************************************************************************)
(* C10: at every parametric point the shape functions N sum to 1 and the   *)
(* derivatives Na and Nb each sum to 0, the 1D Lagrange functions over the *)
(* knots summing to 1 and their derivatives to 0 along each axis; the four *)
(* weights Nerr sum to 1 at every point.                                   *)
(***************************************************************************)
Lagrange1D(pt, k) == lagrangeSFKnots(pt[k], knots, order)
SumsToOne(a, n) == NSum(a, 0, n) = One
SumsToZero(a, n) == NSum(a, 0, n) = Zero
C10_PartitionOfUnity ==
  /\ last.op = "getShapeFunctions" =>
       /\ \A k \in 0..1 : /\ SumsToOne(Lagrange1D(last.pt, k).sf, order)
                          /\ SumsToZero(Lagrange1D(last.pt, k).dsf, order)
       /\ SumsToOne(last.N, order*order)
       /\ SumsToZero(last.Na, order*order)
       /\ SumsToZero(last.Nb, order*order)
  /\ last.op = "getShapeFunctionsN" => SumsToOne(last.N, order*order)
  /\ last.op = "addLocalizedError" =>
       \A pt \in ParamPts(order) \cup {GaussPt(order, c[1], c[2]) :
                                         c \in (0..(order - 1)) \X (0..(order - 1))} :
         SumsToOne(Nerr(Rad(order), pt), 4)

\* the 9 shape functions of the order-3 element at the interior point (1/2, -1/3)
C10_Witness ==
  /\ last.op = "getShapeFunctions"
  /\ order = 3
  /\ last.pt[0] = Rat(1, 2)
  /\ last.pt[1] = Rat(-1, 3)
  /\ last.N[4] = Rat(2, 3)
  /\ last.Na[4] # Zero
  /\ last.Nb[4] # Zero

(***************************************************************************)
(* The patch test: the caller gives an element the nodes of a              *)
(* parallelogram and the nodal samples of an affine field, and evaluates   *)
(* it once.                                                                *)
(***************************************************************************)
\* corners of parallelograms: c4 = c2 + c3 - c1
Sheared == << <<1, 1>>, <<3, 2>>, <<2, 4>>, <<4, 5>> >>
Turned == << <<0, 0>>, <<0, 2>>, <<-1, 0>>, <<-1, 2>> >>
PatchGeoms(o) == {NodeGrid(o, UnitSquare, 0), NodeGrid(o, Sheared, 1), NodeGrid(o, Turned, 0)}
\* coefficients <<a, b, c>> of the field a + b*x + c*y
Fields == {<<0, 0, 0>>, <<5, 0, 0>>, <<1, 2, -3>>, <<0, 1, 1>>}
\* vars[i] = a + b*x_i + c*y_i at the nodes of Xpts
AffineField(o, X, abc) ==
  Tab([i \in 0..(o*o - 1) |->
     NAdd(Num(abc[1]), NAdd(NMul(Rad(o), Num(abc[2]), X[3*i]),
                            NMul(Rad(o), Num(abc[3]), X[3*i + 1])))])

PatchResidual ==
  /\ Alive /\ ncalls = 0
  /\ \E X \in PatchGeoms(order), abc \in Fields :
       /\ res' = addResidual(self, rest.time, res, X, AffineField(order, X, abc),
                             rest.dvars, rest.ddvars)
       /\ Xpts' = X
       /\ vars' = AffineField(order, X, abc)
       /\ Called([op |-> "addResidual", outcome |-> "returned", before |-> res,
                  Xpts |-> X, vars |-> AffineField(order, X, abc)])
  /\ UNCHANGED <<mat, err, cnt, con, data, adjoint>>

PatchOutputData ==
  /\ Alive /\ ncalls = 0
  /\ \E X \in PatchGeoms(order), abc \in Fields, out_type \in OutTypes :
       /\ data' = getOutputData(self, out_type, data, MaxLd, X,
                                AffineField(order, X, abc))
       /\ Xpts' = X
       /\ vars' = AffineField(order, X, abc)
       /\ Called([op |-> "getOutputData", outcome |-> "returned", before |-> data,
                  Xpts |-> X, vars |-> AffineField(order, X, abc),
                  out_type |-> out_type, ld_data |-> MaxLd])
  /\ UNCHANGED <<res, mat, err, cnt, con, adjoint>>

PatchNext == PatchResidual \/ PatchOutputData
PatchSpec == Init /\ [][PatchNext]_vars_

\* the strain <<px, py>> a kernel computes from vars at the parametric point pt
StrainAt(el, X, v, pt) ==
  <<Dot(Rad(el.order), PointData(el, X, pt).Nx, v, el.order*el.order),
    Dot(Rad(el.order), PointData(el, X, pt).Ny, v, el.order*el.order)>>
\* where the strains start in a row of getOutputData
StrainOffset(out_type) ==
  (IF "NODES" \in out_type THEN 3 ELSE 0) + (IF "DISPLACEMENTS" \in out_type THEN 1 ELSE 0)

(***************************************************************************)
(* C11: with the nodes of a parallelogram and vars[i] = a + b*x_i + c*y_i, *)
(* the strain (px, py) that addResidual computes at every quadrature point *)
(* is (b, c), and the strains (and stresses) that getOutputData writes for *)
(* every node are (b, c): (0, 0) for a constant state.                     *)
(***************************************************************************)
C11_PatchTest ==
  \A abc \in Fields :
    (last.op \in {"addResidual", "getOutputData"} /\ vars = AffineField(order, Xpts, abc)) =>
      /\ last.op = "addResidual" =>
           \A n, m \in 0..(order - 1) :
              StrainAt(self, Xpts, vars, GaussPt(order, n, m))
                = <<Num(abc[2]), Num(abc[3])>>
      /\ last.op = "getOutputData" =>
           \A p \in 0..(order*order - 1) :
              /\ "STRAINS" \in last.out_type =>
                   /\ data[p*MaxLd + StrainOffset(last.out_type)] = Num(abc[2])
                   /\ data[p*MaxLd + StrainOffset(last.out_type) + 1] = Num(abc[3])
              /\ {"STRAINS", "STRESSES"} \subseteq last.out_type =>
                   /\ data[p*MaxLd + StrainOffset(last.out_type) + 2] = Num(abc[2])
                   /\ data[p*MaxLd + StrainOffset(last.out_type) + 3] = Num(abc[3])
              /\ last.out_type = {"DISPLACEMENTS", "STRESSES"} =>
                   /\ data[p*MaxLd + 1] = Num(abc[2])
                   /\ data[p*MaxLd + 2] = Num(abc[3])

\* an order-3 element on the sheared parallelogram wrote the strain (2, -3) for node 4
C11_Witness ==
  /\ order = 3 /\ last.op = "getOutputData" /\ last.out_type = OutputFlags
  /\ Xpts = NodeGrid(3, Sheared, 1)
  /\ vars = AffineField(3, Xpts, <<1, 2, -3>>)
  /\ data[4*MaxLd + 4] = Num(2) /\ data[4*MaxLd + 5] = Num(-3)

\* entry i of the load vector: sum over the quadrature points q of w_q*det_q*fval_q*N_i(q)
LoadTerm(el, X, nm, i) ==
  NMul(Rad(el.order),
       NMul(Rad(el.order), GaussWt(el.order, nm[1], nm[2]),
            PointData(el, X, GaussPt(el.order, nm[1], nm[2])).h),
       NMul(Rad(el.order),
            Dot(Rad(el.order), PointData(el, X, GaussPt(el.order, nm[1], nm[2])).N, el.f,
                el.order*el.order),
            PointData(el, X, GaussPt(el.order, nm[1], nm[2])).N[i]))
LoadVector(el, X) ==
  Tab([i \in 0..(el.order*el.order - 1) |->
     NSum(Tab([k \in 0..(el.order*el.order - 1) |->
                 LoadTerm(el, X, GaussLoop(el.order)[k + 1], i)]),
          0, el.order*el.order)])

(***************************************************************************)
(* C12: PoissonQuad<2> on the unit square with f = [1,1,1,1], zero state   *)
(* and a zero buffer: addResidual leaves -1/4 in each of the 4 entries,    *)
(* which sum to -1; and for any element, geometry and source, with zero    *)
(* state res[i] receives -sum_q w_q*det_q*fval_q*N_i(q) and nothing else.  *)
(***************************************************************************)
C12_LoadVector ==
  (last.op = "addResidual" /\ last.vars = ZeroVec(order*order)) =>
     /\ res = VecSub(last.before, LoadVector(self, last.Xpts))
     /\ (/\ order = 2
         /\ last.Xpts = NodeGrid(2, UnitSquare, 0)
         /\ f = Fill(4, One)
         /\ last.before = ZeroVec(4)) =>
            /\ res = Fill(4, Rat(-1, 4))
            /\ NSum(res, 0, 4) = Num(-1)

\* the scenario itself
C12_Witness ==
  /\ order = 2 /\ last.op = "addResidual" /\ last.vars = ZeroVec(4)
  /\ last.Xpts = Tab([k \in 0..11 |-> IF k \in {3, 7, 9, 10} THEN One ELSE Zero])
  /\ f = Fill(4, One) /\ last.before = ZeroVec(4)
  /\ res[0] = Rat(-1, 4) /\ res[3] = Rat(-1, 4)

\* the nodes of the four reference corners
CornerNodes(o) == {0, o - 1, o*(o - 1), o*o - 1}
\* the bilinear weight at pt of the reference corner where node p sits, (knots[n], knots[m])
CornerWeight(el, p, pt) ==
  NMul(Rad(el.order),
       NMul(Rad(el.order), Rat(1, 4),
            NAdd(One, NMul(Rad(el.order), el.knots[p % el.order], pt[0]))),
       NAdd(One, NMul(Rad(el.order), el.knots[p \div el.order], pt[1])))
\* sum_i adjoint[i]*R_i for the increment R that addResidual adds at quadrature point nm
AdjointResidualAt(el, a, X, v, nm) ==
  Dot(Rad(el.order), a,
      addResidualPoint(el, ZeroVec(el.order*el.order), X, v, nm[1], nm[2]),
      el.order*el.order)
\* what corner node p is due: sum over the quadrature points of weight * adjoint residual
CornerShare(el, a, X, v, p) ==
  NSum(Tab([k \in 0..(el.order*el.order - 1) |->
              NMul(Rad(el.order),
                   CornerWeight(el, p, GaussPt(el.order, GaussLoop(el.order)[k + 1][1],
                                               GaussLoop(el.order)[k + 1][2])),
                   AdjointResidualAt(el, a, X, v, GaussLoop(el.order)[k + 1]))]),
       0, el.order*el.order)

(***************************************************************************)
(* C13: addLocalizedError changes only err[0], err[order-1],               *)
(* err[order*(order-1)] and err[order*order-1]; each receives, summed over *)
(* the quadrature points, the bilinear weight of its reference corner      *)
(* times the adjoint-weighted residual at the point; and the four          *)
(* increments sum to sum_i adjoint[i]*R_i, R being the increment of        *)
(* addResidual for the same Xpts and vars.                                 *)
(***************************************************************************)
C13_CornerShares ==
  last.op = "addLocalizedError" =>
     /\ \A i \in 0..(order*order - 1) \ CornerNodes(order) : err[i] = last.before[i]
     /\ \A p \in CornerNodes(order) :
          NSub(err[p], last.before[p])
            = CornerShare(self, last.adjoint, last.Xpts, last.vars, p)
     /\ NAdd(NAdd(NSub(err[0], last.before[0]),
                  NSub(err[order - 1], last.before[order - 1])),
             NAdd(NSub(err[order*(order - 1)], last.before[order*(order - 1)]),
                  NSub(err[order*order - 1], last.before[order*order - 1])))
          = Dot(Rad(order), last.adjoint, ResidualOf(self, last.Xpts, last.vars),
                order*order)

\* an order-3 call that changed all four corners by different amounts and left the
\* centre node as it was
C13_Witness ==
  /\ order = 3 /\ last.op = "addLocalizedError"
  /\ Cardinality({NSub(err[p], last.before[p]) : p \in CornerNodes(3)} \ {Zero}) = 4
  /\ err[4] = last.before[4]

\* the number of values in a row of getOutputData
RowLength(out_type) ==
  3*(IF "NODES" \in out_type THEN 1 ELSE 0)
  + (IF "DISPLACEMENTS" \in out_type THEN 1 ELSE 0)
  + 2*(IF "STRAINS" \in out_type THEN 1 ELSE 0)
  + 2*(IF "STRESSES" \in out_type THEN 1 ELSE 0)
\* the parametric location of node p = n + order*m
NodePt(el, p) ==
  Tab([k \in 0..1 |-> IF k = 0 THEN el.knots[p % el.order] ELSE el.knots[p \div el.order]])
\* the fields of node p = n + order*m in the fixed order, with the gradient taken at
\* (knots[n], knots[m])
NodeFields(el, out_type, X, v, p) ==
  (IF "NODES" \in out_type THEN <<X[3*p], X[3*p + 1], X[3*p + 2]>> ELSE <<>>)
  \o (IF "DISPLACEMENTS" \in out_type THEN <<v[p]>> ELSE <<>>)
  \o (IF "STRAINS" \in out_type
      THEN StrainAt(el, X, v, NodePt(el, p))
      ELSE <<>>)
  \o (IF "STRESSES" \in out_type
      THEN StrainAt(el, X, v, NodePt(el, p))
      ELSE <<>>)

(***************************************************************************)
(* C14: getOutputData writes for every node p = n + order*m the row that   *)
(* starts at data + p*ld_data: node coordinates, displacement, strains,    *)
(* stresses in this order, each present exactly when its bit is set in     *)
(* out_type, 3*[NODES] + [DISPLACEMENTS] + 2*[STRAINS] + 2*[STRESSES]      *)
(* values, with the gradient taken at (knots[n], knots[m]); every other    *)
(* entry of data is left as it was.                                        *)
(***************************************************************************)
C14_OutputRows ==
  last.op = "getOutputData" =>
    /\ \A p \in 0..(order*order - 1) :
         /\ Len(NodeFields(self, last.out_type, last.Xpts, last.vars, p))
              = RowLength(last.out_type)
         /\ \A k \in 1..RowLength(last.out_type) :
              data[p*last.ld_data + k - 1]
                = NodeFields(self, last.out_type, last.Xpts, last.vars, p)[k]
    /\ \A e \in DOMAIN data :
         (e % last.ld_data) >= RowLength(last.out_type) => data[e] = last.before[e]

\* an order-3 call on the trapezoid with all four fields, where the strain written for
\* node 8 differs from the gradient at the quadrature point (2, 2), and the entry after
\* the row was left as it was
C14_Witness ==
  /\ order = 3 /\ last.op = "getOutputData" /\ last.out_type = OutputFlags
  /\ last.Xpts = NodeGrid(3, Trapezoid, 1)
  /\ data[8*MaxLd] = One /\ data[8*MaxLd + 3] = Num(8)
  /\ <<data[8*MaxLd + 4], data[8*MaxLd + 5]>>
       # StrainAt(self, last.Xpts, last.vars, GaussPt(3, 2, 2))
  /\ data[8*MaxLd + 6] = data[8*MaxLd + 4]
  /\ data[8*MaxLd + 8] = last.before[8*MaxLd + 8]

(***************************************************************************)
(* TACSBeamConstitutive (src/unnamed/part_000).  Beam scalars are rational *)
(* numbers <<p, 0, d>>; an array is a function over 0..n-1 and a NULL      *)
(* array pointer is the empty function.  An object is a record             *)
(* [axis, C, rho] together with the fields of its base classes.            *)
(***************************************************************************)
NullArray == <<>>
BMul(x, y) == NMul(2, x, y)
\* sqrt of a rational whose numerator and denominator are perfect squares
ISqrt(n) == CHOOSE k \in 0..n : k * k = n
BSqrt(x) == IF x[3] = 0 THEN NaN ELSE <<ISqrt(x[1]), 0, ISqrt(x[3])>>

\* axis[k] = axs[k]; tmp = 1.0/sqrt(axis . axis); axis[k] *= tmp
\* (a zero axis gives tmp = inf and 0*inf = NaN in every component)
NormalizeAxis(axs) ==
  LET tmp == NInv(2, BSqrt(NAdd(NAdd(BMul(axs[0], axs[0]), BMul(axs[1], axs[1])),
                                BMul(axs[2], axs[2]))))
  IN Tab([k \in 0..2 |-> BMul(axs[k], tmp)])

\* int TACSBeamConstitutive::getNumStresses()
getNumStresses == 6
NUM_TANGENT_STIFFNESS_ENTRIES == (getNumStresses * (getNumStresses + 1)) \div 2

\* the diagonal form of the constructor
TACSBeamConstitutive(rhoA, rhoIy, rhoIz, rhoIyz, EA, GJ, EIy, EIz, kGAy, kGAz, axs) ==
  [axis |-> NormalizeAxis(axs),
   C |-> Tab([k \in 0..(NUM_TANGENT_STIFFNESS_ENTRIES - 1) |->
               IF k = 0 THEN EA
               ELSE IF k = 6 THEN GJ
               ELSE IF k = 11 THEN EIy
               ELSE IF k = 15 THEN EIz
               ELSE IF k = 18 THEN kGAy
               ELSE IF k = 20 THEN kGAz
               ELSE Zero]),
   rho |-> Tab([k \in 0..3 |-> IF k = 0 THEN rhoA
                               ELSE IF k = 1 THEN rhoIy
                               ELSE IF k = 2 THEN rhoIz
                               ELSE rhoIyz])]

\* a setProperties that stores the axis as passed
setPropertiesAsPassed(this, rho0, C0, axs) ==
  [this EXCEPT !.axis = IF Empty(axs) THEN @ ELSE Tab([k \in 0..2 |-> axs[k]]),
               !.rho = IF Empty(rho0) THEN @ ELSE Tab([k \in 0..3 |-> rho0[k]]),
               !.C = IF Empty(C0) THEN @
                     ELSE Tab([k \in 0..(NUM_TANGENT_STIFFNESS_ENTRIES - 1) |-> C0[k]])]
\* void setProperties( rho0, C0, axs ): each part is set only if its pointer is not NULL
setProperties(this, rho0, C0, axs) ==
  [this EXCEPT !.axis = IF Empty(axs) THEN @ ELSE NormalizeAxis(axs),
               !.rho = IF Empty(rho0) THEN @ ELSE Tab([k \in 0..3 |-> rho0[k]]),
               !.C = IF Empty(C0) THEN @
                     ELSE Tab([k \in 0..(NUM_TANGENT_STIFFNESS_ENTRIES - 1) |-> C0[k]])]

\* TacsScalar evalDensity( elemIndex, pt, X )
evalDensity(this, elemIndex, pt, X) == this.rho[0]

\* position of entry (i, j), i <= j, in the row-wise packed upper triangle
PackedIndex(i, j) == getNumStresses * i - ((i * (i - 1)) \div 2) + (j - i)
SymEntry(C, i, j) == IF i <= j THEN C[PackedIndex(i, j)] ELSE C[PackedIndex(j, i)]
\* sum over j in k..5 of C(i, j)*e[j], added to acc
RECURSIVE StressRow(_, _, _, _, _)
StressRow(C, e, i, k, acc) ==
  IF k >= getNumStresses THEN acc
  ELSE StressRow(C, e, i, k + 1, NAdd(acc, BMul(SymEntry(C, i, k), e[k])))
\* computeStress(C, e, s): s = C e for the packed symmetric C
computeStress(C, e) == Tab([i \in 0..(getNumStresses - 1) |-> StressRow(C, e, i, 0, Zero)])

\* an evalStress that scales the strain by the element index
evalStressByIndex(this, elemIndex, pt, X, e) ==
  computeStress(this.C, Tab([k \in DOMAIN e |-> BMul(Num(elemIndex + 1), e[k])]))
\* void evalStress( elemIndex, pt, X, e, s )
evalStress(this, elemIndex, pt, X, e) == computeStress(this.C, e)
\* void evalTangentStiffness( elemIndex, pt, X, C0 )
evalTangentStiffness(this, elemIndex, pt, X) ==
  Tab([k \in 0..(NUM_TANGENT_STIFFNESS_ENTRIES - 1) |-> this.C[k]])

(***************************************************************************)
(* The base classes of the constitutive object, which are not part of the  *)
(* sources at hand: the reference count of TACSObject and the design       *)
(* variable interface of TACSConstitutive, here with one design variable.  *)
(***************************************************************************)
TACSObject == [refs |-> 0]
incref(obj) == [obj EXCEPT !.refs = @ + 1]
TACSConstitutive(dvNum, x, lb, ub) == [dvNum |-> dvNum, x |-> x, lb |-> lb, ub |-> ub]

\* each operation returns the number of design variables; it reads or writes
\* the first entry of its arrays if dvLen admits one
con_getDesignVarNums(this, elemIndex, dvLen, dvNums) ==
  [ret |-> 1, obj |-> this,
   out |-> IF dvLen >= 1 /\ ~Empty(dvNums) THEN [dvNums EXCEPT ![0] = this.dvNum] ELSE dvNums]
con_setDesignVars(this, elemIndex, dvLen, dvs) ==
  [ret |-> 1,
   obj |-> IF dvLen >= 1 /\ ~Empty(dvs) THEN [this EXCEPT !.x = dvs[0]] ELSE this,
   out |-> dvs]
con_getDesignVars(this, elemIndex, dvLen, dvs) ==
  [ret |-> 1, obj |-> this,
   out |-> IF dvLen >= 1 /\ ~Empty(dvs) THEN [dvs EXCEPT ![0] = this.x] ELSE dvs]
con_getDesignVarRange(this, elemIndex, dvLen, lb, ub) ==
  [ret |-> 1, obj |-> this,
   out |-> IF dvLen >= 1 /\ ~Empty(lb) /\ ~Empty(ub)
           THEN <<[lb EXCEPT ![0] = this.lb], [ub EXCEPT ![0] = this.ub]>>
           ELSE <<lb, ub>>]

(***************************************************************************)
(* TACSBeamElement (src/src/elements/shell/TACSBeamElement.h).  An element *)
(* is a record [transform, con] of two pointers: positions in the          *)
(* sequences of transform and constitutive objects.                        *)
(***************************************************************************)
\* a constructor that keeps a private copy of the constitutive object
TACSBeamElementByCopy(T, Cn, _transform, _con) ==
  [obj |-> [transform |-> _transform, con |-> Len(Cn) + 1],
   transforms |-> [T EXCEPT ![_transform] = incref(@)],
   cons |-> Append(Cn, incref(Cn[_con]))]
\* TACSBeamElement( TACSBeamTransform *_transform, TACSBeamConstitutive *_con )
TACSBeamElement(T, Cn, _transform, _con) ==
  [obj |-> [transform |-> _transform, con |-> _con],
   transforms |-> [T EXCEPT ![_transform] = incref(@)],
   cons |-> [Cn EXCEPT ![_con] = incref(@)]]

\* int getDesignVarNums( elemIndex, dvLen, dvNums )
getDesignVarNums(Cn, this, elemIndex, dvLen, dvNums) ==
  con_getDesignVarNums(Cn[this.con], elemIndex, dvLen, dvNums)
\* a setDesignVars that hands on one entry less
setDesignVarsShort(Cn, this, elemIndex, dvLen, dvs) ==
  con_setDesignVars(Cn[this.con], elemIndex, dvLen - 1, dvs)
\* int setDesignVars( elemIndex, dvLen, dvs )
setDesignVars(Cn, this, elemIndex, dvLen, dvs) ==
  con_setDesignVars(Cn[this.con], elemIndex, dvLen, dvs)
\* int getDesignVars( elemIndex, dvLen, dvs )
getDesignVars(Cn, this, elemIndex, dvLen, dvs) ==
  con_getDesignVars(Cn[this.con], elemIndex, dvLen, dvs)
\* int getDesignVarRange( elemIndex, dvLen, lb, ub )
getDesignVarRange(Cn, this, elemIndex, dvLen, lb, ub) ==
  con_getDesignVarRange(Cn[this.con], elemIndex, dvLen, lb, ub)

(***************************************************************************)
(* computeEnergies.  The quadrature, basis, director and model classes and *)
(* the A2D operations are not part of the sources at hand; they are taken  *)
(* for a straight two-node beam along the first axis with unit normals:    *)
(* two quadrature points of weight 1, Xpts the two nodal positions, vars   *)
(* and dvars the two axial nodal displacements and velocities, so that     *)
(* det(Xd) = (x1 - x0)/2 and the axial strain is (u1 - u0)/(x1 - x0).      *)
(* vars[2] and vars[3], where present, are the two transverse nodal        *)
(* displacements, from which the tying strain is taken.                    *)
(***************************************************************************)
getNumQuadraturePoints == 2
\* double weight = quadrature::getQuadraturePoint(quad_index, pt)
getQuadraturePoint(quad_index) == One
\* A2D::Mat3x3Det computedetXd(weight, Xd, detXd): detXd = weight*det(Xd)
Mat3x3Det(weight, _Xpts) == BMul(weight, BMul(Rat(1, 2), NSub(_Xpts[1], _Xpts[0])))
\* model::evalStrain(u0x, d1x, d2x, e0ty, e): the axial strain, no curvature
\* and twist, and the two tying shear strains
evalStrain(_Xpts, _vars, e0ty) ==
  Tab([k \in 0..(getNumStresses - 1) |->
        IF k = 0 THEN NDiv(2, NSub(_vars[1], _vars[0]), NSub(_Xpts[1], _Xpts[0]))
        ELSE IF k = 4 THEN e0ty[0]
        ELSE IF k = 5 THEN e0ty[1]
        ELSE Zero])
\* model::computeTyingStrain(Xpts, fn1, fn2, vars, d1, d2, ety): the transverse
\* shear strain (w1 - w0)/(x1 - x0) at the one tying point
computeTyingStrain(_Xpts, _vars) ==
  Tab([k \in 0..0 |-> IF 3 \in DOMAIN _vars
                      THEN NDiv(2, NSub(_vars[3], _vars[2]), NSub(_Xpts[1], _Xpts[0]))
                      ELSE Zero])
\* basis::interpTyingStrain(pt, ety, gty): the two components at the point
interpTyingStrain(quad_index, ety) == Tab([k \in 0..1 |-> IF k = 0 THEN ety[0] ELSE Zero])
\* s[0]*e[0] + ... + s[5]*e[5]
RECURSIVE StressDotStrain(_, _, _, _)
StressDotStrain(s, e, k, acc) ==
  IF k >= getNumStresses THEN acc
  ELSE StressDotStrain(s, e, k + 1, NAdd(acc, BMul(s[k], e[k])))
\* the body of the loop over the quadrature points: ety and gty are computed
\* and not used; e0ty is declared and read without having been written, so its
\* two entries are whatever the call finds (junk[quad_index]); X is passed on
\* unwritten as well
EnergyAt(obj, elemIndex, _Xpts, _vars, junk, quad_index, Ue) ==
  LET e == evalStrain(_Xpts, _vars, junk[quad_index])
      s == evalStress(obj, elemIndex, quad_index, NullArray, e)
  IN NAdd(Ue, BMul(BMul(Rat(1, 2), Mat3x3Det(getQuadraturePoint(quad_index), _Xpts)),
                   StressDotStrain(s, e, 0, Zero)))
RECURSIVE EnergyLoop(_, _, _, _, _, _, _)
EnergyLoop(obj, elemIndex, _Xpts, _vars, junk, quad_index, Ue) ==
  IF quad_index >= getNumQuadraturePoints THEN Ue
  ELSE EnergyLoop(obj, elemIndex, _Xpts, _vars, junk, quad_index + 1,
                  EnergyAt(obj, elemIndex, _Xpts, _vars, junk, quad_index, Ue))
\* void computeEnergies( elemIndex, time, Xpts, vars, dvars, _Te, _Ue ):
\* Te = 0.0, Ue = 0.0, the loop, then *_Te = Te and *_Ue = Ue
computeEnergies(Cn, this, elemIndex, time, _Xpts, _vars, _dvars, _Te, _Ue, junk) ==
  [Te |-> Zero,
   Ue |-> EnergyLoop(Cn[this.con], elemIndex, _Xpts, _vars, junk, 0, Zero)]

(***************************************************************************)
(* The beam objects as a state machine: constitutive objects and elements  *)
(* are constructed, and the operations are called on them.                 *)
(***************************************************************************)
MaxCons == 2
MaxBeams == 2
MaxBeamCalls == 2

Vec(a, b, c) == Tab([k \in 0..2 |-> IF k = 0 THEN Num(a) ELSE IF k = 1 THEN Num(b) ELSE Num(c)])
\* the arguments of the diagonal constructor: a section with and one without
\* shear stiffness
Sections ==
  {[rho |-> <<2, 1, 1, 0>>, EA |-> 4, GJ |-> 1, EIy |-> 2, EIz |-> 3, kGAy |-> 5, kGAz |-> 6,
    axs |-> Vec(1, 0, 0)],
   [rho |-> <<1, 0, 0, 0>>, EA |-> 2, GJ |-> 1, EIy |-> 1, EIz |-> 1, kGAy |-> 0, kGAz |-> 0,
    axs |-> Vec(0, 3, 4)]}
\* a full stiffness matrix with couplings, and a mass array, for setProperties
FullC == Tab([k \in 0..(NUM_TANGENT_STIFFNESS_ENTRIES - 1) |-> Num((k % 4) + 1)])
FullRho == Tab([k \in 0..3 |-> Num(3 - k)])
Strains ==
  {Tab([k \in 0..5 |-> IF k = 0 THEN One ELSE Zero]),
   Tab([k \in 0..5 |-> Num(k - 2)])}
Junk == {Zero, Num(7)}
\* what the two entries of e0ty may hold
JunkPairs == {Tab([k \in 0..1 |-> Zero]), Tab([k \in 0..1 |-> IF k = 0 THEN Num(7) ELSE Zero])}
\* the object the diagonal constructor makes of a section, the n-th of its kind
SectionObject(sec, n) ==
  TACSBeamConstitutive(Num(sec.rho[1]), Num(sec.rho[2]), Num(sec.rho[3]), Num(sec.rho[4]),
                       Num(sec.EA), Num(sec.GJ), Num(sec.EIy), Num(sec.EIz),
                       Num(sec.kGAy), Num(sec.kGAz), sec.axs)
  @@ TACSConstitutive(n, Num(1), Zero, Num(9)) @@ TACSObject
RefAxisTransform == [axis |-> Vec(0, 0, 1)] @@ TACSObject
\* the beam operations leave the Poisson element alone
QuadUnchanged ==
  UNCHANGED <<order, f, knots, rest, res, mat, err, cnt, con, data,
              Xpts, vars, adjoint, last, prev, ncalls, avars_>>
BeamAlive == nbcalls < MaxBeamCalls
BeamCalled(call) ==
  /\ bcall' = call
  /\ nbcalls' = nbcalls + 1
  /\ QuadUnchanged

BeamInit ==
  /\ QuadIdle
  /\ cons = <<>>
  /\ transforms = <<RefAxisTransform>>
  /\ beams = <<>>
  /\ made = <<>>
  /\ bcall = NoCall
  /\ nbcalls = 0
  /\ AsmIdle

NewConstitutive ==
  /\ Len(cons) < MaxCons
  /\ \E sec \in Sections : cons' = Append(cons, SectionObject(sec, Len(cons) + 1))
  /\ UNCHANGED <<transforms, beams, made, bcall, nbcalls>>
  /\ QuadUnchanged

NewBeam ==
  /\ Len(beams) < MaxBeams
  /\ \E t \in DOMAIN transforms, c \in DOMAIN cons :
       LET new == TACSBeamElement(transforms, cons, t, c) IN
         /\ beams' = Append(beams, new.obj)
         /\ transforms' = new.transforms
         /\ cons' = new.cons
         /\ made' = Append(made, [transform |-> t, con |-> c])
  /\ UNCHANGED <<bcall, nbcalls>>
  /\ QuadUnchanged

SetProperties ==
  /\ BeamAlive
  /\ \E c \in DOMAIN cons, rho0 \in {NullArray, FullRho}, C0 \in {NullArray, FullC},
        axs \in {NullArray, Vec(0, 3, 4)} :
       /\ cons' = [cons EXCEPT ![c] = setProperties(@, rho0, C0, axs)]
       /\ BeamCalled([op |-> "setProperties", outcome |-> "returned", con |-> c,
                      rho0 |-> rho0, C0 |-> C0, axs |-> axs])
  /\ UNCHANGED <<transforms, beams, made>>

EvalStress ==
  /\ BeamAlive
  /\ \E c \in DOMAIN cons, elemIndex \in 0..1, pt \in {Zero, One}, e \in Strains :
       BeamCalled([op |-> "evalStress", outcome |-> "returned", con |-> c,
                   elemIndex |-> elemIndex, pt |-> pt, X |-> Vec(1, 2, 3), e |-> e,
                   s |-> evalStress(cons[c], elemIndex, pt, Vec(1, 2, 3), e)])
  /\ UNCHANGED <<cons, transforms, beams, made>>

EvalTangentStiffness ==
  /\ BeamAlive
  /\ \E c \in DOMAIN cons, elemIndex \in 0..1 :
       BeamCalled([op |-> "evalTangentStiffness", outcome |-> "returned", con |-> c,
                   elemIndex |-> elemIndex,
                   C0 |-> evalTangentStiffness(cons[c], elemIndex, Zero, Vec(1, 2, 3))])
  /\ UNCHANGED <<cons, transforms, beams, made>>

\* the outcome of one of the design variable operations of an element
DesignVarCall(b, name, elemIndex, dvLen, arr, r) ==
  /\ cons' = [cons EXCEPT ![beams[b].con] = r.obj]
  /\ BeamCalled([op |-> name, outcome |-> "returned", beam |-> b, elemIndex |-> elemIndex,
                 dvLen |-> dvLen, arr |-> arr, ret |-> r.ret, out |-> r.out])
  /\ UNCHANGED <<transforms, beams, made>>

GetDesignVarNums ==
  /\ BeamAlive
  /\ \E b \in DOMAIN beams, elemIndex \in {1}, dvLen \in 0..1 :
       LET dvNums == Tab([k \in 0..0 |-> -1]) IN
         DesignVarCall(b, "getDesignVarNums", elemIndex, dvLen, dvNums,
                       getDesignVarNums(cons, beams[b], elemIndex, dvLen, dvNums))

SetDesignVars ==
  /\ BeamAlive
  /\ \E b \in DOMAIN beams, elemIndex \in {1}, dvLen \in 0..1 :
       LET dvs == Tab([k \in 0..0 |-> Num(5)]) IN
         DesignVarCall(b, "setDesignVars", elemIndex, dvLen, dvs,
                       setDesignVars(cons, beams[b], elemIndex, dvLen, dvs))

GetDesignVars ==
  /\ BeamAlive
  /\ \E b \in DOMAIN beams, elemIndex \in {1}, dvLen \in 0..1 :
       LET dvs == Tab([k \in 0..0 |-> Zero]) IN
         DesignVarCall(b, "getDesignVars", elemIndex, dvLen, dvs,
                       getDesignVars(cons, beams[b], elemIndex, dvLen, dvs))

GetDesignVarRange ==
  /\ BeamAlive
  /\ \E b \in DOMAIN beams, elemIndex \in {1}, dvLen \in 0..1 :
       LET lb == Tab([k \in 0..0 |-> Num(-1)])
           ub == Tab([k \in 0..0 |-> Num(-1)]) IN
         DesignVarCall(b, "getDesignVarRange", elemIndex, dvLen, <<lb, ub>>,
                       getDesignVarRange(cons, beams[b], elemIndex, dvLen, lb, ub))

ComputeEnergies ==
  /\ BeamAlive
  /\ \E b \in DOMAIN beams, u \in {One, Num(2)}, w \in {Zero, Num(2)}, v \in {Zero, Num(3)},
        held \in Junk, junk \in [0..(getNumQuadraturePoints - 1) -> JunkPairs] :
       LET _Xpts == Tab([k \in 0..1 |-> Num(2 * k)])
           _vars == Tab([k \in 0..3 |-> IF k = 1 THEN u ELSE IF k = 3 THEN w ELSE Zero])
           _dvars == Tab([k \in 0..1 |-> IF k = 0 THEN Zero ELSE v])
           r == computeEnergies(cons, beams[b], 0, Zero, _Xpts, _vars, _dvars, held, held, junk)
       IN BeamCalled([op |-> "computeEnergies", outcome |-> "returned", beam |-> b,
                      elemIndex |-> 0, Xpts |-> _Xpts, vars |-> _vars, dvars |-> _dvars,
                      held |-> held, Te |-> r.Te, Ue |-> r.Ue])
  /\ UNCHANGED <<cons, transforms, beams, made>>

\* elements and the constitutive objects they share
DesignVarCalls == GetDesignVarNums \/ SetDesignVars \/ GetDesignVars \/ GetDesignVarRange
BeamNext == NewConstitutive \/ NewBeam \/ SetProperties \/ DesignVarCalls
BeamSpec == BeamInit /\ [][BeamNext]_vars_

\* one constitutive object and its operations
ConInit ==
  /\ QuadIdle
  /\ \E sec \in Sections : cons = <<SectionObject(sec, 1)>>
  /\ transforms = <<>> /\ beams = <<>> /\ made = <<>>
  /\ bcall = NoCall /\ nbcalls = 0
  /\ AsmIdle
ConNext == SetProperties \/ EvalStress \/ EvalTangentStiffness
ConSpec == ConInit /\ [][ConNext]_vars_

\* one element, its constitutive object and the energies
EnergyInit ==
  /\ QuadIdle
  /\ \E sec \in Sections :
       LET new == TACSBeamElement(<<RefAxisTransform>>, <<SectionObject(sec, 1)>>, 1, 1) IN
         /\ cons = new.cons /\ transforms = new.transforms /\ beams = <<new.obj>>
  /\ made = <<[transform |-> 1, con |-> 1]>>
  /\ bcall = NoCall /\ nbcalls = 0
  /\ AsmIdle
EnergyNext == SetProperties \/ ComputeEnergies
EnergySpec == EnergyInit /\ [][EnergyNext]_vars_

(***************************************************************************)
(* Claims about the beam element and its constitutive object.              *)
(***************************************************************************)
DesignVarOps == {"getDesignVarNums", "setDesignVars", "getDesignVars", "getDesignVarRange"}
\* the operation of that name, called on the constitutive object itself
ConstitutiveOp(name, obj, elemIndex, dvLen, arr) ==
  IF name = "getDesignVarNums" THEN con_getDesignVarNums(obj, elemIndex, dvLen, arr)
  ELSE IF name = "setDesignVars" THEN con_setDesignVars(obj, elemIndex, dvLen, arr)
  ELSE IF name = "getDesignVars" THEN con_getDesignVars(obj, elemIndex, dvLen, arr)
  ELSE con_getDesignVarRange(obj, elemIndex, dvLen, arr[1], arr[2])

\* C15: a design variable operation of an element returns what the same
\* operation of its constitutive object returns for the same elemIndex, dvLen
\* and arrays, leaves the arrays as that operation leaves them, changes the
\* constitutive object as that operation changes it, and changes nothing else:
\* not the element, not the transform, not any other constitutive object.
C15_Delegation ==
  [][(nbcalls' = nbcalls + 1 /\ bcall'.op \in DesignVarOps) =>
       LET this == beams[bcall'.beam]
           r == ConstitutiveOp(bcall'.op, cons[this.con], bcall'.elemIndex,
                               bcall'.dvLen, bcall'.arr)
       IN /\ bcall'.ret = r.ret
          /\ bcall'.out = r.out
          /\ cons' = [cons EXCEPT ![this.con] = r.obj]
          /\ UNCHANGED <<beams, transforms, made>>]_vars_
\* an element has set the design variable of its constitutive object
C15_Witness ==
  /\ bcall.op = "setDesignVars"
  /\ bcall.dvLen = 1 /\ bcall.ret = 1
  /\ cons[beams[bcall.beam].con].x = Num(5)
  /\ Len(cons) = 2 /\ transforms[beams[bcall.beam].transform].refs > 0

\* the constitutive object a step changes, if it is one that sets properties
\* or design variables: 0 otherwise
ChangedCon(call) ==
  IF call.op = "setProperties" THEN call.con
  ELSE IF call.op = "setDesignVars" THEN made[call.beam].con
  ELSE 0
\* what the elements of that object have to find after the step
NewStiffness(call, old) ==
  IF call.op = "setProperties" /\ ~Empty(call.C0) THEN call.C0 ELSE old.C
NewMass(call, old) ==
  IF call.op = "setProperties" /\ ~Empty(call.rho0) THEN call.rho0[0] ELSE old.rho[0]
NewDesignVar(call, old) ==
  IF call.op = "setDesignVars" /\ call.dvLen >= 1 THEN call.arr[0] ELSE old.x

\* C16: after setProperties on a constitutive object, or setDesignVars through
\* an element that was constructed with it, every element constructed with that
\* object finds the new stiffness in evalTangentStiffness and evalStress (and
\* the new mass and design variable) through its own pointer, and every element
\* constructed with another object finds its object as it was.
C16_SharedByReference ==
  [][(nbcalls' = nbcalls + 1 /\ ChangedCon(bcall') # 0) =>
       LET c == ChangedCon(bcall') IN
         \A b \in DOMAIN beams' :
           LET reached == cons'[beams'[b].con] IN
             IF made'[b].con = c
             THEN /\ evalTangentStiffness(reached, b, Zero, NullArray) = NewStiffness(bcall', cons[c])
                  /\ \A e \in Strains :
                       evalStress(reached, b, Zero, NullArray, e)
                         = computeStress(NewStiffness(bcall', cons[c]), e)
                  /\ evalDensity(reached, b, Zero, NullArray) = NewMass(bcall', cons[c])
                  /\ reached.x = NewDesignVar(bcall', cons[c])
             ELSE reached = cons[beams[b].con]]_vars_
\* two elements constructed with the same object, whose stiffness has then
\* been replaced, while a second object exists
C16_Witness ==
  /\ bcall.op = "setProperties" /\ bcall.C0 = FullC
  /\ Len(beams) = 2 /\ Len(cons) = 2
  /\ made[1].con = bcall.con /\ made[2].con = bcall.con
  /\ cons[beams[1].con].C = FullC /\ cons[beams[2].con].C = FullC
  /\ cons[3 - bcall.con].C # FullC

\* the full 6x6 matrix of 21 packed entries: row i of the upper triangle starts
\* after the 6 + 5 + ... entries of the rows before it
RowStart(i) == IF i = 0 THEN 0 ELSE IF i = 1 THEN 6 ELSE IF i = 2 THEN 11
               ELSE IF i = 3 THEN 15 ELSE IF i = 4 THEN 18 ELSE 20
FullMatrix(C) ==
  [i \in 0..5 |-> [j \in 0..5 |-> IF i <= j THEN C[RowStart(i) + (j - i)]
                                  ELSE C[RowStart(j) + (i - j)]]]
\* the product of a full 6x6 matrix and a vector, written out
Times(A, e) ==
  Tab([i \in 0..5 |->
        NAdd(NAdd(NAdd(BMul(A[i][0], e[0]), BMul(A[i][1], e[1])),
                  NAdd(BMul(A[i][2], e[2]), BMul(A[i][3], e[3]))),
             NAdd(BMul(A[i][4], e[4]), BMul(A[i][5], e[5])))])
Combine(a, e1, e2) == Tab([k \in 0..5 |-> NAdd(BMul(a, e1[k]), e2[k])])
Scales == {Num(-2), Rat(1, 2)}

\* C17: for every constitutive object, evalStress gives the product of the
\* full symmetric 6x6 matrix of the 21 packed entries that evalTangentStiffness
\* copies out and the strain; it has getNumStresses() = 6 entries, is linear in
\* the strain, and is the same for every elemIndex, pt and X; and the stress a
\* call has returned is that product.
C17_StressIsCe ==
  /\ \A c \in DOMAIN cons :
       LET C0 == evalTangentStiffness(cons[c], 0, Zero, NullArray)
           A == FullMatrix(C0)
           s(e) == evalStress(cons[c], 0, Zero, NullArray, e)
       IN /\ DOMAIN C0 = 0..20
          /\ \A i, j \in 0..5 : A[i][j] = A[j][i]
          /\ \A e \in Strains :
               /\ DOMAIN s(e) = 0..(getNumStresses - 1) /\ getNumStresses = 6
               /\ s(e) = Times(A, e)
               /\ \A elemIndex \in 0..1, pt \in {Zero, One}, X \in {NullArray, Vec(1, 2, 3)} :
                    evalStress(cons[c], elemIndex, pt, X, e) = s(e)
          /\ \A e1, e2 \in Strains, a \in Scales :
               s(Combine(a, e1, e2)) = Combine(a, s(e1), s(e2))
  /\ bcall.op = "evalStress" =>
       bcall.s = Times(FullMatrix(evalTangentStiffness(cons[bcall.con], 0, Zero, NullArray)),
                       bcall.e)
\* a stress has been returned for a matrix with couplings, at element index 1
C17_Witness ==
  /\ bcall.op = "evalStress" /\ bcall.elemIndex = 1
  /\ cons[bcall.con].C = FullC
  /\ bcall.e \in Strains /\ bcall.e[1] # Zero
  /\ bcall.s[0] # BMul(cons[bcall.con].C[0], bcall.e[0])

SameInputs(a, b) ==
  /\ a.beam = b.beam /\ a.elemIndex = b.elemIndex
  /\ a.Xpts = b.Xpts /\ a.vars = b.vars /\ a.dvars = b.dvars

\* C18: the potential energy computeEnergies writes to *Ue is the sum over the
\* quadrature points of 0.5*weight*det(Xd)*(s . e) and depends only on the
\* inputs of the call: two calls in a row on the same element with the same
\* elemIndex, Xpts, vars and dvars, the constitutive object being the same,
\* write the same Ue, whatever *Ue held before.
C18_UeDependsOnInputsOnly ==
  [][(/\ bcall.op = "computeEnergies" /\ bcall'.op = "computeEnergies"
      /\ nbcalls' = nbcalls + 1
      /\ SameInputs(bcall, bcall'))
     => bcall'.Ue = bcall.Ue]_vars_

\* C19: the kinetic energy computeEnergies writes to *Te is not zero when the
\* mass per unit length of the constitutive object is positive and a nodal
\* velocity is not zero.
C19_KineticEnergy ==
  (/\ bcall.op = "computeEnergies"
   /\ evalDensity(cons[beams[bcall.beam].con], bcall.elemIndex, Zero, NullArray)[1] > 0
   /\ \E k \in DOMAIN bcall.dvars : bcall.dvars[k] # Zero)
  => bcall.Te # Zero

(***************************************************************************)
(* Several kernel calls accumulating into buffers of one caller.  A call   *)
(* applies its contributions "res[i] += c" one after the other             *)
(* (PoissonElement.h, addResidual and addJacobian); the calls of elements  *)
(* that share a node add to the same entry.  The caller either lets every  *)
(* call add to its one buffer with each "+=" an atomic add, or gives every *)
(* call a buffer of its own and adds these up once all calls are through;  *)
(* a "+=" that is not atomic is a read followed by a write.                *)
(***************************************************************************)
NumKernels == 2
NumEntries == 3
KernelCalls == 1..NumKernels
Nothing == <<>>
\* the contributions <<i, c>> of the call of an element on entries lo, lo + 1:
\* two quadrature points adding to each entry
Contributions(lo, a) ==
  << <<lo, Num(a)>>, <<lo + 1, Num(-a)>>, <<lo, Num(2)>>, <<lo + 1, Num(a + 1)>> >>
\* the buffer that call p is given as res under partitioned accumulation
ResOfShared(p) == 1
ResOf(p) == p
Finished(p) == at[p].k > Len(job.work[p]) /\ at[p].reg = Nothing
NextEntry(p) == job.work[p][at[p].k][1]
NextTerm(p) == job.work[p][at[p].k][2]

AsmInit ==
  /\ QuadIdle
  /\ BeamIdle
  /\ \E mode \in {"atomic", "partitioned"}, fill \in {Zero, Num(7)}, a \in {1, 3} :
       /\ job = [mode |-> mode,
                 initial |-> Tab([i \in 0..(NumEntries - 1) |-> fill]),
                 work |-> [p \in KernelCalls |-> Contributions(p - 1, a * p)]]
       /\ shared = Tab([i \in 0..(NumEntries - 1) |-> fill])
  /\ mine = [p \in KernelCalls |-> ZeroVec(NumEntries)]
  /\ at = [p \in KernelCalls |-> [k |-> 1, reg |-> Nothing]]

AsmUnchanged ==
  UNCHANGED <<order, f, knots, rest, res, mat, err, cnt, con, data,
              Xpts, vars, adjoint, last, prev, ncalls,
              cons, transforms, beams, made, bcall, nbcalls, job>>

\* res[i] += c as one atomic add to the caller's buffer
AtomicAdd(p) ==
  /\ job.mode = "atomic"
  /\ ~Finished(p)
  /\ shared' = [shared EXCEPT ![NextEntry(p)] = Accumulate(@, NextTerm(p))]
  /\ at' = [at EXCEPT ![p].k = @ + 1]
  /\ UNCHANGED mine
  /\ AsmUnchanged

\* res[i] += c on the call's own buffer: the read
Load(p) ==
  /\ job.mode = "partitioned"
  /\ ~Finished(p) /\ at[p].reg = Nothing
  /\ at' = [at EXCEPT ![p].reg = mine[ResOf(p)][NextEntry(p)]]
  /\ UNCHANGED <<shared, mine>>
  /\ AsmUnchanged

\* res[i] += c on the call's own buffer: the write
Store(p) ==
  /\ job.mode = "partitioned"
  /\ at[p].reg # Nothing
  /\ mine' = [mine EXCEPT ![ResOf(p)][NextEntry(p)] = Accumulate(at[p].reg, NextTerm(p))]
  /\ at' = [at EXCEPT ![p].k = @ + 1, ![p].reg = Nothing]
  /\ UNCHANGED shared
  /\ AsmUnchanged

\* the caller adds the buffers of the calls to its own, once, after the calls
RECURSIVE Reduction(_, _, _)
Reduction(buf, bufs, p) ==
  IF p > NumKernels THEN buf
  ELSE Reduction(Tab([i \in DOMAIN buf |-> Accumulate(buf[i], bufs[p][i])]), bufs, p + 1)
AddUp ==
  /\ job.mode = "partitioned"
  /\ \A p \in KernelCalls : Finished(p) /\ at[p].k = Len(job.work[p]) + 1
  /\ shared' = Reduction(shared, mine, 1)
  /\ at' = [p \in KernelCalls |-> [at[p] EXCEPT !.k = @ + 1]]
  /\ UNCHANGED mine
  /\ AsmUnchanged

AsmNext == (\E p \in KernelCalls : AtomicAdd(p) \/ Load(p) \/ Store(p)) \/ AddUp
AsmSpec == AsmInit /\ [][AsmNext]_vars_

\* the sum of the contributions of call p to entry i, from the k-th on
RECURSIVE SumOfTerms(_, _, _)
SumOfTerms(todo, i, k) ==
  IF k > Len(todo) THEN Zero
  ELSE NAdd(IF todo[k][1] = i THEN todo[k][2] ELSE Zero, SumOfTerms(todo, i, k + 1))
RECURSIVE SumOfCalls(_, _)
SumOfCalls(i, p) ==
  IF p > NumKernels THEN Zero ELSE NAdd(SumOfTerms(job.work[p], i, 1), SumOfCalls(i, p + 1))
AllThrough ==
  /\ job # <<>>
  /\ \A p \in KernelCalls : Finished(p)
  /\ job.mode = "partitioned" => \A p \in KernelCalls : at[p].k = Len(job.work[p]) + 2

disp_offset == 3
\* static const int vars_per_node = disp_offset + director::NUM_PARAMETERS
vars_per_node(NP) == disp_offset + NP
\* int getVarsPerNode()
getVarsPerNode(NP) == vars_per_node(NP)
\* TacsGetNumVisNodes(basis::getLayoutType()) and basis::NUM_NODES
num_vis_nodes == 2
\* const int vars_per_node = 4 + director::NUM_PARAMETERS, local to getOutputData
output_vars_per_node(NP) == 4 + NP
Min(a, b) == IF a < b THEN a ELSE b
\* vars[k]; beyond the end of the array the read finds whatever is there
ReadVars(_vars, k, junk) == IF k \in DOMAIN _vars THEN _vars[k] ELSE junk

\* TacsScalar e[9]: the strain at a node, the axial strain of the two nodes'
\* first displacements and no other
NodeStrain(NP, _Xpts, _vars) ==
  Tab([k \in 0..8 |->
        IF k = 0 THEN NDiv(2, NSub(_vars[vars_per_node(NP)], _vars[0]),
                              NSub(_Xpts[3], _Xpts[0]))
        ELSE Zero])
\* TacsScalar s[9]; con->evalStress(elemIndex, pt, X, em, s) with em = e - et and
\* no thermal strain: evalStress writes getNumStresses() entries, the others
\* stay as the call found them
NodeStress(obj, elemIndex, index, e, junk) ==
  LET s == evalStress(obj, elemIndex, index, NullArray, e)
  IN Tab([k \in 0..8 |-> IF k < getNumStresses THEN s[k] ELSE junk])

\* the values written for one node, in the order written, data advancing by
\* 3, 6, 9, 9 and 4
BeamNodes(_Xpts, index) == <<_Xpts[3*index], _Xpts[3*index + 1], _Xpts[3*index + 2]>>
BeamDisplacements(NP, _vars, index, junk) ==
  [i \in 1..6 |->
     IF i - 1 < Min(output_vars_per_node(NP), 6)
     THEN ReadVars(_vars, (i - 1) + output_vars_per_node(NP)*index, junk)
     ELSE Zero]
BeamStrains(e) == [i \in 1..9 |-> e[i - 1]]
BeamStresses(s) == [i \in 1..9 |-> s[i - 1]]
BeamExtras == <<Zero, Zero, Zero, Zero>>
BeamOutputRow(obj, NP, elemIndex, write_flag, _Xpts, _vars, index, junk) ==
  LET e == NodeStrain(NP, _Xpts, _vars) IN
    (IF "NODES" \in write_flag THEN BeamNodes(_Xpts, index) ELSE <<>>)
    \o (IF "DISPLACEMENTS" \in write_flag THEN BeamDisplacements(NP, _vars, index, junk)
        ELSE <<>>)
    \o (IF "STRAINS" \in write_flag THEN BeamStrains(e) ELSE <<>>)
    \o (IF "STRESSES" \in write_flag
        THEN BeamStresses(NodeStress(obj, elemIndex, index, e, junk)) ELSE <<>>)
    \o (IF "EXTRAS" \in write_flag THEN BeamExtras ELSE <<>>)

\* the loop over the visualization nodes: data is advanced past each field
\* written and by nothing else, so pos goes on from row to row
RECURSIVE beam_getOutputDataLoop(_, _, _, _, _, _, _, _, _, _)
beam_getOutputDataLoop(obj, NP, elemIndex, write_flag, _Xpts, _vars, junk, index, pos, data_) ==
  IF index >= num_vis_nodes THEN data_
  ELSE LET row == BeamOutputRow(obj, NP, elemIndex, write_flag, _Xpts, _vars, index, junk)
       IN beam_getOutputDataLoop(obj, NP, elemIndex, write_flag, _Xpts, _vars, junk,
            index + 1, pos + Len(row),
            Tab([k \in DOMAIN data_ |->
                  IF k >= pos /\ k < pos + Len(row) THEN row[k - pos + 1] ELSE data_[k]]))
\* void getOutputData( elemIndex, etype, write_flag, Xpts, vars, dvars, ddvars,
\*                     ld_data, data )
beam_getOutputData(Cn, this, NP, elemIndex, etype, write_flag, _Xpts, _vars, ld_data, data_, junk) ==
  IF etype = "TACS_BEAM_OR_SHELL_ELEMENT"
  THEN beam_getOutputDataLoop(Cn[this.con], NP, elemIndex, write_flag, _Xpts, _vars, junk,
                              0, 0, data_)
  ELSE data_

\* the number of values of a row of the selected fields
BeamRowLength(write_flag) ==
  (IF "NODES" \in write_flag THEN 3 ELSE 0)
  + (IF "DISPLACEMENTS" \in write_flag THEN 6 ELSE 0)
  + (IF "STRAINS" \in write_flag THEN 9 ELSE 0)
  + (IF "STRESSES" \in write_flag THEN 9 ELSE 0)
  + (IF "EXTRAS" \in write_flag THEN 4 ELSE 0)
BeamOutputFlags == {{"NODES", "DISPLACEMENTS"}, {"STRAINS"},
                    {"NODES", "DISPLACEMENTS", "STRAINS", "STRESSES", "EXTRAS"}}
MaxRowPad == 1

BeamGetOutputData ==
  /\ BeamAlive
  /\ \E b \in DOMAIN beams, NP \in {1, 3}, write_flag \in BeamOutputFlags,
        etype \in {"TACS_BEAM_OR_SHELL_ELEMENT", "TACS_SCALAR_2D_ELEMENT"},
        pad \in 0..MaxRowPad, u \in {0, 10}, junk \in Junk, fill \in {Num(7)} :
       LET _Xpts == Tab([k \in 0..5 |-> IF k = 3 THEN Num(2) ELSE Zero])
           _vars == Tab([k \in 0..(num_vis_nodes * vars_per_node(NP) - 1) |-> Num(k + 1 + u * k)])
           ld_data == BeamRowLength(write_flag) + pad
           before == Tab([k \in 0..(num_vis_nodes * ld_data - 1) |-> fill])
       IN BeamCalled([op |-> "getOutputData", outcome |-> "returned", beam |-> b,
                      NP |-> NP, elemIndex |-> 0, etype |-> etype, write_flag |-> write_flag,
                      Xpts |-> _Xpts, vars |-> _vars, ld_data |-> ld_data, before |-> before,
                      data |-> beam_getOutputData(cons, beams[b], NP, 0, etype, write_flag,
                                                  _Xpts, _vars, ld_data, before, junk)])
  /\ UNCHANGED <<cons, transforms, beams, made>>

\* one element and its output and energies
OutputNext == BeamGetOutputData \/ ComputeEnergies
OutputSpec == EnergyInit /\ [][OutputNext]_vars_

\* where the displacements of a row begin
DisplacementOffset(write_flag) == IF "NODES" \in write_flag THEN 3 ELSE 0
Written(call) ==
  /\ call.op = "getOutputData"
  /\ call.etype = "TACS_BEAM_OR_SHELL_ELEMENT"

\* C21: getOutputData reads the displacements of node index at
\* vars[getVarsPerNode()*index + i], the stride of every other operation, and
\* writes getNumStresses() = 6 strain components per node, as many as
\* computeEnergies uses.  (Taken on calls whose rows follow one another without
\* a gap, ld_data being the length of a row.)
C21_OneStride ==
  (Written(bcall) /\ bcall.ld_data = BeamRowLength(bcall.write_flag)) =>
    /\ "DISPLACEMENTS" \in bcall.write_flag =>
         \A index \in 0..(num_vis_nodes - 1), i \in 0..(disp_offset - 1) :
           bcall.data[index * bcall.ld_data + DisplacementOffset(bcall.write_flag) + i]
             = bcall.vars[getVarsPerNode(bcall.NP) * index + i]
    /\ "STRAINS" \in bcall.write_flag =>
         Len(BeamStrains(NodeStrain(bcall.NP, bcall.Xpts, bcall.vars))) = getNumStresses

\* C22: getOutputData writes the values of visualization node index from
\* data + index*ld_data on: the node's coordinates first if nodes are selected,
\* then six displacement slots of which those past the state values are zero;
\* and it leaves the buffer as it was when etype is not
\* TACS_BEAM_OR_SHELL_ELEMENT.
C22_RowStride ==
  bcall.op = "getOutputData" =>
    IF bcall.etype # "TACS_BEAM_OR_SHELL_ELEMENT" THEN bcall.data = bcall.before
    ELSE \A index \in 0..(num_vis_nodes - 1) :
           LET start == index * bcall.ld_data IN
             /\ "NODES" \in bcall.write_flag =>
                  \A k \in 0..2 : bcall.data[start + k] = bcall.Xpts[3*index + k]
             /\ ("DISPLACEMENTS" \in bcall.write_flag /\ bcall.NP = 1) =>
                  bcall.data[start + DisplacementOffset(bcall.write_flag) + 5] = Zero
\* the same for the calls whose ld_data is the length of a row
RowStrideWhenPacked ==
  bcall.op = "getOutputData" /\ bcall.ld_data = BeamRowLength(bcall.write_flag) => C22_RowStride

\* the tying strain in the local frame at every quadrature point, as made of
\* the strains at the tying points: the frame of the straight beam is the
\* global one, so the transformation changes nothing
TyingStrains(_Xpts, _vars) ==
  [quad_index \in 0..(getNumQuadraturePoints - 1) |->
     interpTyingStrain(quad_index, computeTyingStrain(_Xpts, _vars))]

\* C23: the strain computeEnergies hands to evalStress at a quadrature point is
\* made of the tying strains interpolated to that point and transformed to the
\* local frame, so the potential energy written is the energy of that strain.
C23_TyingStrainIsUsed ==
  bcall.op = "computeEnergies" =>
    bcall.Ue = EnergyLoop(cons[beams[bcall.beam].con], bcall.elemIndex, bcall.Xpts, bcall.vars,
                          TyingStrains(bcall.Xpts, bcall.vars), 0, Zero)

(***************************************************************************)
(* TACSBeamRefAxisTransform::computeTransform and computeTransformSens,    *)
(* statement by statement.  The A2D operators are not part of the sources  *)
(* at hand: constructing one is its forward step, reverse() its reverse    *)
(* step.  A call under way is the record bcall with outcome "running" and  *)
(* the statements done so far.                                             *)
(***************************************************************************)
Forward(name) == [kind |-> "forward", operator |-> name]
Backward(name) == [kind |-> "reverse", operator |-> name]
\* the statements of computeTransform, in the order of the code
computeTransform ==
  << Forward("normalizet1"), Forward("dott1"), Forward("axpy"), Forward("normalizet2"),
     Forward("cross"), Forward("assembleT"),
     [kind |-> "output", operator |-> "Tvals"] >>
\* computeTransformSens with the reverse steps in the order of the forward ones
computeTransformSensInOrder ==
  << Forward("normalizet1"), Forward("dott1"), Forward("axpy"), Forward("normalizet2"),
     Forward("cross"),
     [kind |-> "seed", operator |-> "T"],
     Forward("assembleT"),
     Backward("normalizet1"), Backward("dott1"), Backward("axpy"), Backward("normalizet2"),
     Backward("cross"), Backward("assembleT"),
     [kind |-> "output", operator |-> "dX0xi"] >>
\* the statements of computeTransformSens, in the order of the code
computeTransformSens ==
  << Forward("normalizet1"), Forward("dott1"), Forward("axpy"), Forward("normalizet2"),
     Forward("cross"),
     [kind |-> "seed", operator |-> "T"],
     Forward("assembleT"),
     Backward("assembleT"), Backward("cross"), Backward("normalizet2"), Backward("axpy"),
     Backward("dott1"), Backward("normalizet1"),
     [kind |-> "output", operator |-> "dX0xi"] >>
StatementsOf(name) ==
  IF name = "computeTransform" THEN computeTransform ELSE computeTransformSens

\* a call begins: nothing done yet
TransformBegin ==
  /\ BeamAlive /\ bcall.outcome = "returned"
  /\ \E t \in DOMAIN transforms, name \in {"computeTransform", "computeTransformSens"},
        X0xi_vals \in {Vec(1, 0, 0), Vec(0, 3, 4)}, dTvals \in {Zero, One} :
       BeamCalled([op |-> name, outcome |-> "running", transform |-> t,
                   X0xi |-> X0xi_vals,
                   dTvals |-> IF name = "computeTransformSens" THEN dTvals ELSE Zero,
                   done |-> <<>>])
  /\ UNCHANGED <<cons, transforms, beams, made>>
\* the call does its next statement, and returns after the last
TransformStep ==
  /\ bcall.outcome = "running"
  /\ LET todo == StatementsOf(bcall.op)
         done == Append(bcall.done, todo[Len(bcall.done) + 1])
     IN bcall' = [bcall EXCEPT !.done = done,
                               !.outcome = IF Len(done) = Len(todo) THEN "returned"
                                           ELSE "running"]
  /\ UNCHANGED <<cons, transforms, beams, made, nbcalls>>
  /\ QuadUnchanged
TransformNext == TransformBegin \/ TransformStep
TransformSpec == BeamInit /\ [][TransformNext]_vars_

\* the operators of the statements of one kind, in the order done
RECURSIVE OperatorsOf(_, _, _)
OperatorsOf(done, kind, k) ==
  IF k > Len(done) THEN <<>>
  ELSE (IF done[k].kind = kind THEN <<done[k].operator>> ELSE <<>>)
       \o OperatorsOf(done, kind, k + 1)
Backwards(s) == [k \in 1..Len(s) |-> s[Len(s) + 1 - k]]
IsPrefix(s, t) == Len(s) <= Len(t) /\ \A k \in 1..Len(s) : s[k] = t[k]
Places(done, kind) == {k \in 1..Len(done) : done[k].kind = kind}
ForwardOrder == <<"normalizet1", "dott1", "axpy", "normalizet2", "cross", "assembleT">>

\* C24: at every moment of a computeTransformSens call the forward steps done
\* are a beginning of the forward sequence of computeTransform (normalizet1,
\* dott1, axpy, normalizet2, cross, assembleT), the reverse steps done are a
\* beginning of that sequence backwards, no reverse step comes before the last
\* forward step or before the seed of T is set, and dX0xi is read only after
\* all six reverse steps; a call that has returned has done every forward and
\* every reverse step exactly once and has read dX0xi.
C24_ReverseOrder ==
  bcall.op = "computeTransformSens" =>
    LET done == bcall.done
        fwd == OperatorsOf(done, "forward", 1)
        rev == OperatorsOf(done, "reverse", 1)
    IN /\ OperatorsOf(computeTransform, "forward", 1) = ForwardOrder
       /\ IsPrefix(fwd, ForwardOrder)
       /\ IsPrefix(rev, Backwards(ForwardOrder))
       /\ \A r \in Places(done, "reverse") :
            /\ \A g \in Places(done, "forward") : g < r
            /\ Len(fwd) = Len(ForwardOrder)
            /\ \E z \in Places(done, "seed") : z < r
       /\ \A o \in Places(done, "output") :
            /\ Len(rev) = Len(ForwardOrder)
            /\ \A r \in Places(done, "reverse") : r < o
       /\ bcall.outcome = "returned" =>
            /\ fwd = ForwardOrder
            /\ rev = Backwards(ForwardOrder)
            /\ Places(done, "output") = {Len(done)}
\* a computeTransformSens call has returned
C24_Witness ==
  /\ bcall.op = "computeTransformSens" /\ bcall.outcome = "returned"
  /\ Len(OperatorsOf(bcall.done, "reverse", 1)) = 6
  /\ bcall.done[Len(bcall.done)].operator = "dX0xi"
  /\ bcall.dTvals = One

(***************************************************************************)
(* The end of an element's life.  TACSBeamElement declares no destructor   *)
(* and no statement of the class releases a reference: destroying an       *)
(* element frees its own storage and leaves the transform and the          *)
(* constitutive object as they are.                                        *)
(***************************************************************************)
Freed == [transform |-> 0, con |-> 0]
\* the implicit ~TACSBeamElement()
destroyTACSBeamElement(T, Cn, this) == [transforms |-> T, cons |-> Cn]
Live == {b \in DOMAIN beams : beams[b] # Freed}
DestroyBeam ==
  /\ \E b \in Live :
       LET gone == destroyTACSBeamElement(transforms, cons, beams[b]) IN
         /\ beams' = [beams EXCEPT ![b] = Freed]
         /\ transforms' = gone.transforms
         /\ cons' = gone.cons
  /\ UNCHANGED <<made, bcall, nbcalls>>
  /\ QuadUnchanged
RefNext == NewConstitutive \/ NewBeam \/ DestroyBeam
\* two transforms and no constitutive object or element yet
RefInit ==
  /\ QuadIdle
  /\ cons = <<>>
  /\ transforms = <<RefAxisTransform, [axis |-> Vec(0, 1, 0)] @@ TACSObject>>
  /\ beams = <<>>
  /\ made = <<>>
  /\ bcall = NoCall
  /\ nbcalls = 0
  /\ AsmIdle
RefSpec == RefInit /\ [][RefNext]_vars_

\* the elements among a set that were constructed with the given objects
WithTransform(bs, t) == {b \in bs : made[b].transform = t}
WithCon(bs, c) == {b \in bs : made[b].con = c}
\* C25: the reference count of every transform and of every constitutive
\* object is its initial count plus the number of live elements that were
\* constructed with it, so that it is back at the initial count once all those
\* elements are destroyed.
C25_RefCountsBalanced ==
  /\ \A t \in DOMAIN transforms :
       transforms[t].refs = TACSObject.refs + Cardinality(WithTransform(Live, t))
  /\ \A c \in DOMAIN cons :
       cons[c].refs = TACSObject.refs + Cardinality(WithCon(Live, c))
\* what the code does keep: a count is the initial count plus the number of
\* elements ever constructed with the object, destroyed or not
RefCountsCountConstructions ==
  /\ \A t \in DOMAIN transforms :
       transforms[t].refs = TACSObject.refs + Cardinality(WithTransform(DOMAIN beams, t))
  /\ \A c \in DOMAIN cons :
       cons[c].refs = TACSObject.refs + Cardinality(WithCon(DOMAIN beams, c))

(***************************************************************************)
(* TACSBeamConstitutive::getProperties and the calls that read back what   *)
(* setProperties stored.                                                   *)
(***************************************************************************)
\* void getProperties( rho0, C0, axs ): each array is written only if its
\* pointer is not NULL; the object is not written
getProperties(this, rho0, C0, axs) ==
  [axs |-> IF Empty(axs) THEN axs ELSE Tab([k \in 0..2 |-> this.axis[k]]),
   rho0 |-> IF Empty(rho0) THEN rho0 ELSE Tab([k \in 0..3 |-> this.rho[k]]),
   C0 |-> IF Empty(C0) THEN C0
          ELSE Tab([k \in 0..(NUM_TANGENT_STIFFNESS_ENTRIES - 1) |-> this.C[k]])]
\* a caller's array of n entries, all holding one value
Buffer(n, fill) == Tab([k \in 0..(n - 1) |-> fill])
GetProperties ==
  /\ BeamAlive
  /\ \E c \in DOMAIN cons, fill \in Junk,
        wantRho \in BOOLEAN, wantC \in BOOLEAN, wantAxis \in BOOLEAN :
       LET rho0 == IF wantRho THEN Buffer(4, fill) ELSE NullArray
           C0 == IF wantC THEN Buffer(NUM_TANGENT_STIFFNESS_ENTRIES, fill) ELSE NullArray
           axs == IF wantAxis THEN Buffer(3, fill) ELSE NullArray
           out == getProperties(cons[c], rho0, C0, axs)
       IN BeamCalled([op |-> "getProperties", outcome |-> "returned", con |-> c,
                      rho0 |-> out.rho0, C0 |-> out.C0, axs |-> out.axs,
                      before |-> [rho0 |-> rho0, C0 |-> C0, axs |-> axs]])
  /\ UNCHANGED <<cons, transforms, beams, made>>
PropNext == SetProperties \/ GetProperties
PropSpec == ConInit /\ [][PropNext]_vars_

Dot3(a, b) == NAdd(NAdd(BMul(a[0], b[0]), BMul(a[1], b[1])), BMul(a[2], b[2]))
\* v has unit length and points along w
UnitAlong(v, w) ==
  /\ Dot3(v, v) = One
  /\ \A k \in 0..2 : BMul(v[k], BSqrt(Dot3(w, w))) = w[k]
\* the fields of a constitutive object that setProperties may write
PropertyGroups == {"rho", "C", "axis"}
OtherFields(obj) == [g \in (DOMAIN obj) \ PropertyGroups |-> obj[g]]

\* C26: a setProperties call replaces rho (4 entries) by rho0, C (21 entries)
\* by C0 and the axis by the unit vector along axs where the argument is not
\* null, and leaves a group whose argument is null, every other field of the
\* object and every other object unchanged; a getProperties call changes no
\* object, leaves its null arguments null and fills the others with the
\* object's rho, C and axis; so a getProperties that follows a setProperties on
\* the same object returns the rho0 and the C0 of that call and, for the axis,
\* the unit vector along the axs of that call.
C26_SetThenGet ==
  [][ /\ (nbcalls' # nbcalls /\ bcall'.op = "setProperties") =>
           LET c == bcall'.con
               old == cons[c]
               new == cons'[c]
           IN /\ \A d \in DOMAIN cons : d # c => cons'[d] = cons[d]
              /\ DOMAIN cons' = DOMAIN cons
              /\ OtherFields(new) = OtherFields(old)
              /\ new.rho = IF Empty(bcall'.rho0) THEN old.rho ELSE bcall'.rho0
              /\ new.C = IF Empty(bcall'.C0) THEN old.C ELSE bcall'.C0
              /\ IF Empty(bcall'.axs) THEN new.axis = old.axis
                 ELSE UnitAlong(new.axis, bcall'.axs)
              /\ DOMAIN new.rho = 0..3 /\ DOMAIN new.C = 0..20 /\ DOMAIN new.axis = 0..2
      /\ (nbcalls' # nbcalls /\ bcall'.op = "getProperties") =>
           LET c == bcall'.con
               got == bcall'
           IN /\ cons' = cons
              /\ Empty(got.rho0) = Empty(got.before.rho0)
              /\ Empty(got.C0) = Empty(got.before.C0)
              /\ Empty(got.axs) = Empty(got.before.axs)
              /\ ~Empty(got.rho0) => got.rho0 = cons[c].rho
              /\ ~Empty(got.C0) => got.C0 = cons[c].C
              /\ ~Empty(got.axs) => got.axs = cons[c].axis
              /\ (bcall.op = "setProperties" /\ bcall.con = c) =>
                   /\ (~Empty(got.rho0) /\ ~Empty(bcall.rho0)) => got.rho0 = bcall.rho0
                   /\ (~Empty(got.C0) /\ ~Empty(bcall.C0)) => got.C0 = bcall.C0
                   /\ (~Empty(got.axs) /\ ~Empty(bcall.axs)) =>
                        UnitAlong(got.axs, bcall.axs)
    ]_vars_
\* getProperties has returned the axis (0, 3/5, 4/5) of an object whose axis
\* was set as (0, 3, 4), together with the full stiffness that was set
C26_Witness ==
  /\ bcall.op = "getProperties"
  /\ ~Empty(bcall.axs) /\ bcall.axs = Tab([k \in 0..2 |-> IF k = 0 THEN Zero ELSE Rat(k + 2, 5)])
  /\ bcall.axs # Vec(0, 3, 4)
  /\ ~Empty(bcall.C0) /\ bcall.C0 = FullC
  /\ Empty(bcall.rho0) /\ cons[bcall.con].rho # FullRho

====
